---- MODULE Spec2Model ----
(***************************************************************************)
(* JWT/JWKS token verification and permission/role authorization of the    *)
(* FastAPI template.  Two revisions of the authentication core are         *)
(* modelled:                                                               *)
(*   - the Auth0 revision: app/auth/services/verify_token.py,              *)
(*     app/auth/services/check_permissions.py, app/auth/dependencies.py;   *)
(*   - the provider-agnostic revision: infrastructure/auth/jwt_provider.py,*)
(*     application/auth/authentication_service.py,                         *)
(*     infrastructure/api/dependencies.py.                                 *)
(* A Python dict is a function whose DOMAIN is the set of keys present, a  *)
(* list is a sequence, an exception is a record [type, msg] whose msg is   *)
(* the sequence of the pieces the f-strings concatenate.                   *)
(***************************************************************************)
EXTENDS Integers, Sequences, FiniteSets, TLC

VARIABLES
    mode,        \* the revision / usage a run exercises
    now,         \* wall clock read by the JWT library when it checks exp
    remote,      \* the JWKS document the provider's endpoint serves now
    jwks_cache,  \* VerifyTokenService._jwks_cache of the long-lived instance
    gets,        \* httpx.get calls issued so far
    kids,        \* kids of the tokens verified so far on the instance
    okgets,      \* fetches that completed so far
    oauth2_audience,  \* settings.OAUTH2_AUDIENCE
    issued,      \* <<subject, user_id>> of the user authenticate returned last
    cur          \* the unit of work in progress (a call or a request)

vars == <<mode, now, remote, oauth2_audience, jwks_cache, gets, okgets, kids, issued,
          cur>>

----------------------------------------------------------------------------
(* Bounds *)

MaxTime == 2
MaxGets == 2

----------------------------------------------------------------------------
(* Generic helpers *)

Range(s) == {s[i] : i \in 1..Len(s)}

\* dict.get(key, default)
DictGet(d, key, default) == IF key \in DOMAIN d THEN d[key] ELSE default

\* Python None for the key cache (a dict that is not a JWKS document)
None == [none |-> TRUE]

Ok(v) == [ok |-> TRUE, val |-> v]
Raise(type, msg) == [ok |-> FALSE, exc |-> [type |-> type, msg |-> msg]]

\* Exception classes and their base classes (reflexive, transitive).
Bases(type) ==
    CASE type = "ExpiredSignatureError" ->
            {"ExpiredSignatureError", "JWTError", "JOSEError", "Exception"}
      [] type = "JWTClaimsError" ->
            {"JWTClaimsError", "JWTError", "JOSEError", "Exception"}
      [] type = "JWTError" -> {"JWTError", "JOSEError", "Exception"}
      [] type = "InvalidTokenException" ->
            {"InvalidTokenException", "AuthenticationException",
             "DomainException", "Exception"}
      [] type = "ExpiredTokenException" ->
            {"ExpiredTokenException", "AuthenticationException",
             "DomainException", "Exception"}
      [] type = "InsufficientPermissionsException" ->
            {"InsufficientPermissionsException", "DomainException",
             "Exception"}
      [] type = "TokenExpiredException" ->
            {"TokenExpiredException", "AuthenticationException",
             "DomainException", "Exception"}
      [] type = "NotImplementedProviderException" ->
            {"NotImplementedProviderException", "DomainException",
             "Exception"}
      [] type = "NotImplementedError" ->
            {"NotImplementedError", "RuntimeError", "Exception"}
      [] type = "HTTPError" -> {"HTTPError", "Exception"}
      [] type = "ValidationError" ->
            {"ValidationError", "ValueError", "Exception"}
      [] OTHER -> {type, "Exception"}

IsInstance(exc, class) == class \in Bases(exc.type)

----------------------------------------------------------------------------
(* Configuration of the Auth0 revision (settings.AUTH0_AUDIENCE, AUTH0_DOMAIN) *)

AUTH0_AUDIENCE == "https://api.example.com"
Auth0Issuer == "https://test.auth0.com/"

----------------------------------------------------------------------------
(* Exceptions of app/auth/exceptions.py; str(e) is the message *)

AuthenticationException(message) ==
    [type |-> "AuthenticationException", msg |-> message]

InvalidTokenException(reason) ==
    [type |-> "InvalidTokenException", msg |-> <<"Invalid token: ">> \o reason]

ExpiredTokenException ==
    [type |-> "ExpiredTokenException", msg |-> <<"Token has expired">>]

InsufficientPermissionsException(required_permissions) ==
    [type |-> "InsufficientPermissionsException",
     msg |-> <<"Insufficient permissions. Required: ">> \o required_permissions,
     required_permissions |-> required_permissions]

----------------------------------------------------------------------------
(* Input domains: key sets and tokens *)

Jwk(kid, material) == [kid |-> kid, material |-> material]

\* JWKS documents the endpoint may serve: {"keys": [...]}
Jwks1 == [keys |-> <<Jwk("k1", "m1")>>]
Jwks2 == [keys |-> <<Jwk("k2", "m2"), Jwk("k1", "m1")>>]
JwksChoices == {Jwks1, Jwks2}

\* outcome of one httpx.get + raise_for_status + json
FetchOutcomes == {"ok", "http_error", "error"}

Headers == {<<>>} \cup {[kid |-> k] : k \in {"k1", "k2"}}
Signers == {"m1", "m2"}

ExpValues == 1..(MaxTime + 1)

\* a claim a token may lack: <<>> when absent, <<v>> when present
Opt(S) == {<<>>} \cup {<<v>> : v \in S}

\* the payload dict holding the claims that are present
Payload(claims) ==
    [c \in {k \in DOMAIN claims : claims[k] # <<>>} |-> claims[c][1]]

Token(wellformed, header, signer, payload) ==
    [wellformed |-> wellformed, header |-> header, signer |-> signer,
     payload |-> payload]

MalformedToken == Token(FALSE, <<>>, "m1", <<>>)

\* claims of the Auth0 revision's tokens
Auth0Claims == {"sub", "permissions", "iss", "aud", "exp"}

\* every way verification can go, on the usual identity
Auth0VerificationTokens ==
    {Token(TRUE, h, s,
           Payload([sub |-> <<"auth0|u1">>,
                    permissions |-> << <<"read:data">> >>,
                    iss |-> i, aud |-> a, exp |-> e])) :
        h \in Headers, s \in Signers,
        i \in Opt({Auth0Issuer, "https://evil.example/"}),
        a \in Opt({<<AUTH0_AUDIENCE>>, <<"https://other.example">>}),
        e \in Opt(ExpValues)}

\* every identity, on tokens signed by a key of the provider that do not
\* expire within the bound
Auth0IdentityTokens ==
    {Token(TRUE, [kid |-> k[1]], k[2],
           Payload([sub |-> u, permissions |-> p,
                    iss |-> <<Auth0Issuer>>, aud |-> a, exp |-> e])) :
        k \in {<<"k1", "m1">>, <<"k2", "m2">>},
        u \in Opt({"auth0|u1", "auth0|u2"}),
        p \in Opt({<<"read:data">>, <<"write:data", "read:data">>}),
        a \in Opt({<<AUTH0_AUDIENCE>>}),
        e \in Opt({MaxTime + 1})}

\* tokens presented to the Auth0 revision
Auth0Tokens ==
    {MalformedToken} \cup Auth0VerificationTokens \cup Auth0IdentityTokens

----------------------------------------------------------------------------
(* python-jose, as called by VerifyTokenService *)

\* jwt.get_unverified_header(token)
GetUnverifiedHeader(token) ==
    IF token.wellformed THEN Ok(token.header)
    ELSE Raise("JWTError", <<"Error decoding token headers.">>)

\* jwt.decode(token, key, algorithms, audience, issuer): the signature is
\* verified first, then the claims in the order exp, aud, iss.
JoseDecode(token, key, audience, issuer, clock) ==
    LET p == token.payload IN
    IF ~token.wellformed
    THEN Raise("JWTError", <<"Error decoding token headers.">>)
    ELSE IF token.signer # key
    THEN Raise("JWTError", <<"Signature verification failed.">>)
    ELSE IF "exp" \in DOMAIN p /\ p.exp < clock
    THEN Raise("ExpiredSignatureError", <<"Signature has expired.">>)
    ELSE IF "aud" \in DOMAIN p /\ audience \notin Range(p.aud)
    THEN Raise("JWTClaimsError", <<"Invalid audience">>)
    ELSE IF DictGet(p, "iss", "") # issuer
    THEN Raise("JWTClaimsError", <<"Invalid issuer">>)
    ELSE Ok(p)

----------------------------------------------------------------------------
(* app/auth/schemas.py *)

\* mutant: the permissions claim is not read
TokenPayloadValidate_NoPermissions(payload) ==
    IF "sub" \notin DOMAIN payload
    THEN Raise("ValidationError", <<"sub: Field required">>)
    ELSE Ok([sub |-> payload.sub, permissions |-> <<>>])

\* TokenPayload.model_validate(payload): sub is required, permissions
\* defaults to [], unknown claims are ignored
TokenPayloadValidate(payload) ==
    IF "sub" \notin DOMAIN payload
    THEN Raise("ValidationError", <<"sub: Field required">>)
    ELSE Ok([sub |-> payload.sub,
             permissions |-> DictGet(payload, "permissions", <<>>)])

\* AuthenticatedUser(user_id=..., permissions=...)
AuthenticatedUser(user_id, permissions) ==
    [user_id |-> user_id, permissions |-> permissions]

----------------------------------------------------------------------------
(* app/auth/services/verify_token.py: VerifyTokenService *)

\* mutant: a fetched document is returned but not kept
GetJwks_NoStore(cache, f, served) ==
    IF cache # None
    THEN [ret |-> Ok(cache), cache |-> cache, gets |-> 0]
    ELSE IF f = "ok"
    THEN [ret |-> Ok(served), cache |-> cache, gets |-> 1]
    ELSE IF f = "http_error"
    THEN [ret |-> [ok |-> FALSE,
                   exc |-> InvalidTokenException(
                               <<"Unable to fetch signing keys">>)],
          cache |-> cache, gets |-> 1]
    ELSE [ret |-> Raise("Exception", <<"Network error">>),
          cache |-> cache, gets |-> 1]

\* mutant: the cache receives the key set one key at a time, the first
\* key first
GetJwks_Partial(cache, f, served) ==
    IF cache # None
    THEN [ret |-> Ok(cache), cache |-> cache, gets |-> 0]
    ELSE IF f = "ok"
    THEN [ret |-> Ok(served),
          cache |-> [keys |-> SubSeq(served.keys, 1, 1)], gets |-> 1]
    ELSE IF f = "http_error"
    THEN [ret |-> [ok |-> FALSE,
                   exc |-> InvalidTokenException(
                               <<"Unable to fetch signing keys">>)],
          cache |-> cache, gets |-> 1]
    ELSE [ret |-> Raise("Exception", <<"Network error">>),
          cache |-> cache, gets |-> 1]

\* mutant: the key set is fetched at every call, the cache is overwritten
GetJwks_Refetch(cache, f, served) ==
    IF f = "ok"
    THEN [ret |-> Ok(served), cache |-> served, gets |-> 1]
    ELSE IF f = "http_error"
    THEN [ret |-> [ok |-> FALSE,
                   exc |-> InvalidTokenException(
                               <<"Unable to fetch signing keys">>)],
          cache |-> cache, gets |-> 1]
    ELSE [ret |-> Raise("Exception", <<"Network error">>),
          cache |-> cache, gets |-> 1]

\* mutant: a fetch that failed leaves an empty key set in the cache
GetJwks_CacheFailure(cache, f, served) ==
    IF cache # None
    THEN [ret |-> Ok(cache), cache |-> cache, gets |-> 0]
    ELSE IF f = "ok"
    THEN [ret |-> Ok(served), cache |-> served, gets |-> 1]
    ELSE IF f = "http_error"
    THEN [ret |-> [ok |-> FALSE,
                   exc |-> InvalidTokenException(
                               <<"Unable to fetch signing keys">>)],
          cache |-> [keys |-> <<>>], gets |-> 1]
    ELSE [ret |-> Raise("Exception", <<"Network error">>),
          cache |-> [keys |-> <<>>], gets |-> 1]

\* _get_jwks: the cache when it is set, else one httpx.get; only a fetch
\* that completed sets the cache.  f is the outcome of the fetch and served
\* the document the endpoint returns.
GetJwks(cache, f, served) ==
    IF cache # None
    THEN [ret |-> Ok(cache), cache |-> cache, gets |-> 0]
    ELSE IF f = "ok"
    THEN [ret |-> Ok(served), cache |-> served, gets |-> 1]
    ELSE IF f = "http_error"
    THEN [ret |-> [ok |-> FALSE,
                   exc |-> InvalidTokenException(
                               <<"Unable to fetch signing keys">>)],
          cache |-> cache, gets |-> 1]
    ELSE [ret |-> Raise("Exception", <<"Network error">>),
          cache |-> cache, gets |-> 1]

\* mutant: the first key of the set is taken, whatever its kid
FindKey_First(keys, kid) ==
    IF keys = <<>> THEN <<>> ELSE <<Head(keys).material>>

\* for key in jwks.get('keys', []): if key.get('kid') == kid: return PEM
RECURSIVE FindKey(_, _)
FindKey(keys, kid) ==
    IF keys = <<>> THEN <<>>
    ELSE IF DictGet(Head(keys), "kid", "") = kid
    THEN <<Head(keys).material>>
    ELSE FindKey(Tail(keys), kid)

\* except (JWTError, KeyError) of _get_signing_key
SigningKeyExcept(exc) ==
    IF IsInstance(exc, "JWTError") \/ IsInstance(exc, "KeyError")
    THEN InvalidTokenException(<<"Invalid token header: ">> \o exc.msg)
    ELSE exc

\* mutant: the key set is obtained before the header is looked at
GetSigningKey_FetchFirst(token, cache, f, served) ==
    LET Failed(j, exc) ==
            [j EXCEPT !.ret = [ok |-> FALSE, exc |-> SigningKeyExcept(exc)]]
        Search(j, found) ==
            IF found # <<>> THEN [j EXCEPT !.ret = Ok(found[1])]
            ELSE Failed(j, InvalidTokenException(<<"Signing key not found">>))
        WithHeader(j, header) ==
            IF ~header.ok THEN Failed(j, header.exc)
            ELSE IF "kid" \notin DOMAIN header.val
            THEN Failed(j, InvalidTokenException(<<"Token missing key ID">>))
            ELSE IF ~j.ret.ok THEN Failed(j, j.ret.exc)
            ELSE Search(j, FindKey(DictGet(j.ret.val, "keys", <<>>),
                                   header.val.kid))
    IN WithHeader(GetJwks(cache, f, served), GetUnverifiedHeader(token))

\* _get_signing_key
GetSigningKey(token, cache, f, served) ==
    LET Failed(j, exc) ==
            [j EXCEPT !.ret = [ok |-> FALSE, exc |-> SigningKeyExcept(exc)]]
        unfetched == [ret |-> None, cache |-> cache, gets |-> 0]
        Search(j, found) ==
            IF found # <<>> THEN [j EXCEPT !.ret = Ok(found[1])]
            ELSE Failed(j, InvalidTokenException(<<"Signing key not found">>))
        WithJwks(j, kid) ==
            IF ~j.ret.ok THEN Failed(j, j.ret.exc)
            ELSE Search(j, FindKey(DictGet(j.ret.val, "keys", <<>>), kid))
        WithHeader(header) ==
            IF ~header.ok THEN Failed(unfetched, header.exc)
            ELSE IF "kid" \notin DOMAIN header.val
            THEN Failed(unfetched,
                        InvalidTokenException(<<"Token missing key ID">>))
            ELSE WithJwks(GetJwks(cache, f, served), header.val.kid)
    IN WithHeader(GetUnverifiedHeader(token))

\* mutant: the JWTError clause comes before the ExpiredSignatureError one
ExecuteExcept_JwtErrorFirst(exc) ==
    IF IsInstance(exc, "JWTError")
    THEN InvalidTokenException(exc.msg)
    ELSE IF IsInstance(exc, "ExpiredSignatureError")
    THEN ExpiredTokenException
    ELSE InvalidTokenException(<<"Token verification failed: ">> \o exc.msg)

\* mutant: there is no 'except Exception' clause
ExecuteExcept_NoCatchAll(exc) ==
    IF IsInstance(exc, "ExpiredSignatureError")
    THEN ExpiredTokenException
    ELSE IF IsInstance(exc, "JWTError")
    THEN InvalidTokenException(exc.msg)
    ELSE exc

\* the except clauses of execute, in order
ExecuteExcept(exc) ==
    IF IsInstance(exc, "ExpiredSignatureError")
    THEN ExpiredTokenException
    ELSE IF IsInstance(exc, "JWTError")
    THEN InvalidTokenException(exc.msg)
    ELSE InvalidTokenException(<<"Token verification failed: ">> \o exc.msg)

\* execute(token) at time clock: ret is the AuthenticatedUser or the
\* exception raised, cache the instance's cache afterwards, gets the number
\* of fetches issued
Execute(token, cache, f, served, clock) ==
    LET Failed(k, exc) ==
            [k EXCEPT !.ret = [ok |-> FALSE, exc |-> ExecuteExcept(exc)]]
        WithTokenPayload(k, token_payload) ==
            IF ~token_payload.ok THEN Failed(k, token_payload.exc)
            ELSE [k EXCEPT !.ret = Ok(AuthenticatedUser(
                                          token_payload.val.sub,
                                          token_payload.val.permissions))]
        WithPayload(k, payload) ==
            IF ~payload.ok THEN Failed(k, payload.exc)
            ELSE WithTokenPayload(k, TokenPayloadValidate(payload.val))
        WithKey(k) ==
            IF ~k.ret.ok THEN Failed(k, k.ret.exc)
            ELSE WithPayload(k, JoseDecode(token, k.ret.val, AUTH0_AUDIENCE,
                                           Auth0Issuer, clock))
    IN WithKey(GetSigningKey(token, cache, f, served))

----------------------------------------------------------------------------
(* Provider-agnostic revision: configuration and tokens *)

OAUTH2_ISSUER == "https://example.com"
ConfiguredAudience == "api://default"
\* settings.OAUTH2_AUDIENCE: str | None
NoAudience == "<None>"
AudienceSettings == {NoAudience, ConfiguredAudience}

UuidLower == "123e4567-e89b-12d3-a456-426614174000"
UuidUpper == "123E4567-E89B-12D3-A456-426614174000"

OAuth2Claims ==
    {"sub", "exp", "iss", "aud", "email", "provider", "roles", "permissions"}

\* every way verification can go, on the usual identity
OAuth2VerificationTokens ==
    {Token(TRUE, h, s,
           Payload([sub |-> <<"auth0|u1">>, email |-> <<"user@example.com">>,
                    provider |-> <<"supabase">>,
                    roles |-> << <<"admin">> >>,
                    permissions |-> << <<"write:data">> >>,
                    iss |-> i, aud |-> a, exp |-> e])) :
        h \in Headers, s \in Signers,
        i \in Opt({OAUTH2_ISSUER, "https://evil.example/"}),
        a \in Opt({<<ConfiguredAudience>>, <<"https://other.example">>}),
        e \in Opt(ExpValues)}

\* roles and permissions as tokens carry them together
Grants ==
    {<< <<>>, <<>> >>,
     << << <<"admin">> >>, << <<"write:data">> >> >>,
     << << <<"user", "moderator">> >>,
        << <<"read:data", "admin:write">> >> >>}

\* every identity, on tokens signed by the first key that do not expire
\* within the bound
OAuth2IdentityTokens ==
    {Token(TRUE, [kid |-> "k1"], "m1",
           Payload([sub |-> u, email |-> m, provider |-> v,
                    roles |-> g[1], permissions |-> g[2],
                    iss |-> <<OAUTH2_ISSUER>>, aud |-> a,
                    exp |-> <<MaxTime + 1>>])) :
        u \in Opt({"auth0|u1", UuidLower, UuidUpper}),
        m \in Opt({"user@example.com", "not-an-email"}),
        v \in Opt({"supabase"}),
        g \in Grants,
        a \in Opt({<<ConfiguredAudience>>})}

\* tokens presented to the provider-agnostic revision
OAuth2Tokens ==
    {MalformedToken} \cup OAuth2VerificationTokens \cup OAuth2IdentityTokens

----------------------------------------------------------------------------
(* PyJWT, as called by JWTOAuth2Provider *)

\* jwks_client.get_signing_key_from_jwt(token): the unverified header is
\* decoded, the key set is obtained and searched for the header's kid
PyJwkGetSigningKey(token, f, served) ==
    LET Search(found) ==
            IF found # <<>> THEN Ok(found[1])
            ELSE Raise("PyJWKClientError",
                       <<"Unable to find a signing key that matches">>)
    IN
    IF ~token.wellformed
    THEN Raise("DecodeError", <<"Not enough segments">>)
    ELSE IF f # "ok"
    THEN Raise("PyJWKClientConnectionError",
               <<"Fail to fetch data from the url">>)
    ELSE Search(FindKey(DictGet(served, "keys", <<>>),
                        DictGet(token.header, "kid", "<None>")))

\* jwt.decode(token, key, algorithms, issuer, audience, options): the
\* signature first, then exp, iss and, when verify_aud, aud
PyJwtDecode(token, key, issuer, audience, verify_aud, clock) ==
    LET p == token.payload IN
    IF token.signer # key
    THEN Raise("InvalidSignatureError", <<"Signature verification failed">>)
    ELSE IF "exp" \in DOMAIN p /\ p.exp <= clock
    THEN Raise("ExpiredSignatureError", <<"Signature has expired">>)
    ELSE IF "iss" \notin DOMAIN p
    THEN Raise("MissingRequiredClaimError", <<"iss">>)
    ELSE IF p.iss # issuer
    THEN Raise("InvalidIssuerError", <<"Invalid issuer">>)
    ELSE IF verify_aud /\ "aud" \notin DOMAIN p
    THEN Raise("MissingRequiredClaimError", <<"aud">>)
    ELSE IF verify_aud /\ audience \notin Range(p.aud)
    THEN Raise("InvalidAudienceError", <<"Audience doesn't match">>)
    ELSE Ok(p)

----------------------------------------------------------------------------
(* uuid and pydantic, as used by get_user_info *)

\* uuid.UUID(value): the canonical form of the strings that parse
UuidParse(value) ==
    CASE value = UuidLower -> Ok([hex |-> UuidLower])
      [] value = UuidUpper -> Ok([hex |-> UuidLower])
      [] OTHER -> Raise("ValueError", <<"badly formed hexadecimal UUID string">>)

\* uuid.uuid5(uuid.NAMESPACE_DNS, name)
Uuid5Dns(name) == [sha1 |-> <<"NAMESPACE_DNS", name>>]

\* EmailStr validation
EmailValid(email) == email \in {"user@example.com", "jane@example.com"}

----------------------------------------------------------------------------
(* app/infrastructure/auth/jwt_provider.py: JWTOAuth2Provider *)

\* _is_uuid
IsUuid(value) == UuidParse(value).ok

\* verify_token: every exception becomes Failure(e), unchanged
VerifyToken(token, audience, f, served, clock) ==
    LET WithDecoded(decoded) ==
            IF ~decoded.ok THEN decoded
            ELSE Ok([sub |-> DictGet(decoded.val, "sub", ""),
                     exp |-> DictGet(decoded.val, "exp", 0),
                     email |-> DictGet(decoded.val, "email", "<None>"),
                     provider |-> DictGet(decoded.val, "provider", "unknown"),
                     roles |-> DictGet(decoded.val, "roles", <<>>),
                     permissions |->
                         DictGet(decoded.val, "permissions", <<>>)])
        WithKey(signing_key) ==
            IF ~signing_key.ok THEN signing_key
            ELSE WithDecoded(PyJwtDecode(token, signing_key.val,
                                         OAUTH2_ISSUER, audience,
                                         audience # NoAudience, clock))
    IN WithKey(PyJwkGetSigningKey(token, f, served))

\* mutant: the subject is always hashed, UUID or not
UserIdOf_Hashed(sub) == Uuid5Dns(sub)

\* the user_id expression of get_user_info
UserIdOf(sub) == IF IsUuid(sub) THEN UuidParse(sub).val ELSE Uuid5Dns(sub)

\* get_user_info: verifies the token again, then builds the user; the
\* user's email is EmailStr, so a missing or invalid email fails validation
GetUserInfo(token, audience, f, served, clock) ==
    LET User(payload, email) ==
            IF ~EmailValid(email)
            THEN Raise("ValidationError",
                       <<"email: value is not a valid email address">>)
            ELSE Ok([user_id |-> UserIdOf(payload.sub),
                     email |-> email,
                     provider |-> payload.provider,
                     provider_user_id |-> payload.sub,
                     roles |-> payload.roles,
                     permissions |-> payload.permissions])
        WithResult(token_result) ==
            IF ~token_result.ok THEN token_result
            ELSE User(token_result.val,
                      IF token_result.val.email = "<None>" THEN ""
                      ELSE token_result.val.email)
    IN WithResult(VerifyToken(token, audience, f, served, clock))

\* mutant: any() in place of all()
RECURSIVE validate_permissions_any(_, _)
validate_permissions_any(user, required_permissions) ==
    IF required_permissions = <<>> THEN FALSE
    ELSE \/ Head(required_permissions) \in Range(user.permissions)
         \/ validate_permissions_any(user, Tail(required_permissions))

\* validate_permissions: all(permission in user.permissions for ...)
RECURSIVE validate_permissions(_, _)
validate_permissions(user, required_permissions) ==
    IF required_permissions = <<>> THEN TRUE
    ELSE /\ Head(required_permissions) \in Range(user.permissions)
         /\ validate_permissions(user, Tail(required_permissions))

\* validate_roles: any(role in user.roles for role in required_roles)
RECURSIVE validate_roles(_, _)
validate_roles(user, required_roles) ==
    IF required_roles = <<>> THEN FALSE
    ELSE \/ Head(required_roles) \in Range(user.roles)
         \/ validate_roles(user, Tail(required_roles))

----------------------------------------------------------------------------
(* app/application/auth/authentication_service.py: AuthenticationService *)

\* mutant: a failed verification is wrapped before it is returned
Authenticate_Rewrapped(token, audience, f1, f2, served, clock1, clock2) ==
    LET WithResult(token_result) ==
            IF ~token_result.ok
            THEN [ok |-> FALSE,
                  exc |-> AuthenticationException(
                              <<"Authentication failed: ">>
                                  \o token_result.exc.msg)]
            ELSE GetUserInfo(token, audience, f2, served, clock2)
    IN WithResult(VerifyToken(token, audience, f1, served, clock1))

\* mutant: the user is built from the verification authenticate made itself
Authenticate_VerifyOnce(token, audience, f1, f2, served, clock1, clock2) ==
    LET WithResult(token_result) ==
            IF ~token_result.ok THEN token_result
            ELSE GetUserInfo(token, audience, f1, served, clock1)
    IN WithResult(VerifyToken(token, audience, f1, served, clock1))

\* authenticate: verify_token, then get_user_info (which verifies again, at
\* clock2 with the fetch outcome f2)
Authenticate(token, audience, f1, f2, served, clock1, clock2) ==
    LET WithResult(token_result) ==
            IF ~token_result.ok THEN token_result
            ELSE GetUserInfo(token, audience, f2, served, clock2)
    IN WithResult(VerifyToken(token, audience, f1, served, clock1))

\* check_permissions delegates to the provider
check_permissions(user, required_permissions) ==
    validate_permissions(user, required_permissions)

\* mutant: an empty requirement passes without the provider being asked
check_roles_EmptyPasses(user, required_roles) ==
    required_roles = <<>> \/ validate_roles(user, required_roles)

\* check_roles delegates to the provider
check_roles(user, required_roles) == validate_roles(user, required_roles)

\* the provider methods authenticate invokes, given what verify_token
\* returned: get_user_info is reached only behind the Failure check
AuthenticateCalls(token_result) ==
    IF ~token_result.ok THEN <<"verify_token">>
    ELSE <<"verify_token", "get_user_info">>

----------------------------------------------------------------------------
(* The revision whose provider raises: shared/exceptions.py,               *)
(* app/auth/providers/jwt_provider.py and app/auth/services.py              *)

\* PyJWT's exception classes and their base classes
PyJwtBases(type) ==
    CASE type = "ExpiredSignatureError" ->
            {"ExpiredSignatureError", "InvalidTokenError", "PyJWTError",
             "Exception"}
      [] type = "InvalidSignatureError" ->
            {"InvalidSignatureError", "DecodeError", "InvalidTokenError",
             "PyJWTError", "Exception"}
      [] type \in {"DecodeError", "InvalidIssuerError", "InvalidAudienceError",
                   "MissingRequiredClaimError"} ->
            {type, "InvalidTokenError", "PyJWTError", "Exception"}
      [] type = "PyJWKClientConnectionError" ->
            {"PyJWKClientConnectionError", "PyJWKClientError", "PyJWTError",
             "Exception"}
      [] type = "PyJWKClientError" ->
            {"PyJWKClientError", "PyJWTError", "Exception"}
      [] OTHER -> Bases(type)

\* the exception classes of shared/exceptions.py; the first three take the
\* message as it is given
SharedAuthenticationException(message) ==
    [type |-> "AuthenticationException", msg |-> message]

TokenExpiredException(message) ==
    [type |-> "TokenExpiredException", msg |-> message]

SharedInvalidTokenException(message) ==
    [type |-> "InvalidTokenException", msg |-> message]

NotImplementedProviderException(method_name) ==
    [type |-> "NotImplementedProviderException",
     msg |-> <<method_name, " must be implemented per provider. ",
               "Please use the provider's SDK or API.">>,
     method_name |-> method_name,
     provider_name |-> "OAuth2Provider"]

\* the except clauses of verify_token, in their order
RaisingVerifyTokenExcept(exc) ==
    IF "ExpiredSignatureError" \in PyJwtBases(exc.type)
    THEN TokenExpiredException(<<"Token has expired">>)
    ELSE IF "InvalidTokenError" \in PyJwtBases(exc.type)
    THEN SharedInvalidTokenException(<<"Invalid token: ">> \o exc.msg)
    ELSE SharedAuthenticationException(
             <<"Token verification failed: ">> \o exc.msg)

\* verify_token: the try block is the one of the provider-agnostic
\* revision, whose Failure(e) carries the exception the block raised
RaisingVerifyToken(token, audience, f, served, clock) ==
    LET Caught(attempt) ==
            IF attempt.ok THEN attempt
            ELSE [ok |-> FALSE, exc |-> RaisingVerifyTokenExcept(attempt.exc)]
    IN Caught(VerifyToken(token, audience, f, served, clock))

\* the except clauses of get_user_info
RaisingGetUserInfoExcept(exc) ==
    IF exc.type \in {"TokenExpiredException", "InvalidTokenException"}
    THEN exc
    ELSE SharedAuthenticationException(
             <<"Failed to get user info: ">> \o exc.msg)

\* get_user_info: verifies the token, then builds the user (email is
\* EmailStr, and an absent email is passed as '')
RaisingGetUserInfo(token, audience, f, served, clock) ==
    LET User(payload, email) ==
            IF ~EmailValid(email)
            THEN [ok |-> FALSE,
                  exc |-> RaisingGetUserInfoExcept(
                      [type |-> "ValidationError",
                       msg |-> <<"email: value is not a valid email address">>])]
            ELSE Ok([user_id |-> UserIdOf(payload.sub),
                     email |-> email,
                     provider |-> payload.provider,
                     provider_user_id |-> payload.sub,
                     roles |-> payload.roles,
                     permissions |-> payload.permissions])
        WithPayload(verified) ==
            IF ~verified.ok
            THEN [ok |-> FALSE, exc |-> RaisingGetUserInfoExcept(verified.exc)]
            ELSE User(verified.val,
                      IF verified.val.email = "<None>" THEN ""
                      ELSE verified.val.email)
    IN WithPayload(RaisingVerifyToken(token, audience, f, served, clock))

\* refresh_token and revoke_token
RaisingRefreshToken(refresh_token) ==
    [ok |-> FALSE, exc |-> NotImplementedProviderException("refresh_token")]

RaisingRevokeToken(token) ==
    [ok |-> FALSE, exc |-> NotImplementedProviderException("revoke_token")]

\* the except clauses of AuthenticationService.authenticate
RaisingAuthenticateExcept(exc) ==
    IF IsInstance(exc, "AuthenticationException") THEN exc
    ELSE SharedAuthenticationException(
             <<"Authentication failed: ">> \o exc.msg)

\* AuthenticationService.authenticate: verify_token, then get_user_info
RaisingAuthenticate(token, audience, f1, f2, served, clock1, clock2) ==
    LET Caught(attempt) ==
            IF attempt.ok THEN attempt
            ELSE [ok |-> FALSE, exc |-> RaisingAuthenticateExcept(attempt.exc)]
        WithPayload(verified) ==
            IF ~verified.ok THEN Caught(verified)
            ELSE Caught(RaisingGetUserInfo(token, audience, f2, served,
                                           clock2))
    IN WithPayload(RaisingVerifyToken(token, audience, f1, served, clock1))

\* AuthenticationService.refresh_authentication: whatever the provider
\* raises becomes AuthenticationException('Token refresh failed: ...')
RaisingRefreshAuthentication(refresh_token) ==
    LET Caught(attempt) ==
            IF attempt.ok THEN attempt
            ELSE [ok |-> FALSE,
                  exc |-> SharedAuthenticationException(
                              <<"Token refresh failed: ">> \o attempt.exc.msg)]
    IN Caught(RaisingRefreshToken(refresh_token))

\* AuthenticationService.logout: whatever the provider raises becomes
\* AuthenticationException('Logout failed: ...')
RaisingLogout(token) ==
    LET Caught(attempt) ==
            IF attempt.ok THEN attempt
            ELSE [ok |-> FALSE,
                  exc |-> SharedAuthenticationException(
                              <<"Logout failed: ">> \o attempt.exc.msg)]
    IN Caught(RaisingRevokeToken(token))

----------------------------------------------------------------------------
(* refresh and revoke of the provider-agnostic revision *)

\* JWTOAuth2Provider.refresh_token and revoke_token return a Failure
RefreshToken(refresh_token) ==
    Raise("NotImplementedError",
          <<"Token refresh must be implemented per provider. ",
            "Please use the provider's SDK or API.">>)

RevokeToken(token) ==
    Raise("NotImplementedError",
          <<"Token revocation must be implemented per provider. ",
            "Please use the provider's SDK or API.">>)

\* AuthenticationService.refresh_authentication and logout return the
\* provider's result
RefreshAuthentication(refresh_token) == RefreshToken(refresh_token)

Logout(token) == RevokeToken(token)

----------------------------------------------------------------------------
(* app/domain/auth/user.py and app/auth/schemas.py: AuthenticatedUser *)

\* has_all_permissions: all(p in self.permissions for p in permissions)
RECURSIVE has_all_permissions(_, _)
has_all_permissions(user, permissions) ==
    IF permissions = <<>> THEN TRUE
    ELSE /\ Head(permissions) \in Range(user.permissions)
         /\ has_all_permissions(user, Tail(permissions))

\* mutant: all() in place of any()
RECURSIVE has_any_role_all(_, _)
has_any_role_all(user, roles) ==
    IF roles = <<>> THEN TRUE
    ELSE /\ Head(roles) \in Range(user.roles)
         /\ has_any_role_all(user, Tail(roles))

\* has_any_role: any(role in self.roles for role in roles)
RECURSIVE has_any_role(_, _)
has_any_role(user, roles) ==
    IF roles = <<>> THEN FALSE
    ELSE \/ Head(roles) \in Range(user.roles)
         \/ has_any_role(user, Tail(roles))

----------------------------------------------------------------------------
(* app/auth/services/check_permissions.py: CheckPermissionsService *)

\* missing = [p for p in required if p not in user.permissions]
RECURSIVE MissingPermissions(_, _)
MissingPermissions(user, required) ==
    IF required = <<>> THEN <<>>
    ELSE (IF Head(required) \in Range(user.permissions)
          THEN <<>> ELSE <<Head(required)>>)
         \o MissingPermissions(user, Tail(required))

\* mutant: the exception carries the missing permissions only
CheckPermissionsExecute_MissingOnly(required_permissions, user) ==
    IF ~has_all_permissions(user, required_permissions)
    THEN [ok |-> FALSE,
          exc |-> InsufficientPermissionsException(
                      MissingPermissions(user, required_permissions))]
    ELSE Ok("None")

\* execute(user): returns None or raises InsufficientPermissionsException
CheckPermissionsExecute(required_permissions, user) ==
    IF ~has_all_permissions(user, required_permissions)
    THEN [ok |-> FALSE,
          exc |-> InsufficientPermissionsException(required_permissions)]
    ELSE Ok("None")

----------------------------------------------------------------------------
(* HTTP layer of the Auth0 revision: app/auth/dependencies.py *)

\* An Authorization header: absent, or its text as the words split() yields.
\* A word is plain text [s |-> ...] or a token [jwt |-> ...].
Word(s) == [s |-> s]
Jwt(token) == [jwt |-> token]
\* blank tells an empty string from one made of white space only
NoHeader == [present |-> FALSE, words |-> <<>>, blank |-> FALSE]
HeaderText(words) == [present |-> TRUE, words |-> words, blank |-> FALSE]
EmptyHeader == [present |-> TRUE, words |-> <<>>, blank |-> FALSE]
BlankHeader == [present |-> TRUE, words |-> <<>>, blank |-> TRUE]

\* str.lower() of a word
Lower(word) ==
    IF "jwt" \in DOMAIN word THEN "<jwt>"
    ELSE CASE word.s \in {"Bearer", "bearer", "BEARER"} -> "bearer"
           [] OTHER -> word.s

\* the token a word is handed to the verifier as
TokenOf(word) == IF "jwt" \in DOMAIN word THEN word.jwt ELSE MalformedToken

Http(status, detail) == [status |-> status, detail |-> detail]

\* mutant: the scheme is compared as it is written
Auth0GetCurrentUser_CaseSensitive(authorization, cache, f, served, clock) ==
    LET Refused(detail) ==
            [ret |-> [ok |-> FALSE, exc |-> Http(401, detail)],
             verifier |-> FALSE, handed |-> None, gets |-> 0, cache |-> cache]
        Answer(token, r) ==
            [ret |-> IF r.ret.ok THEN r.ret
                     ELSE IF IsInstance(r.ret.exc, "AuthenticationException")
                     THEN [ok |-> FALSE, exc |-> Http(401, r.ret.exc.msg)]
                     ELSE [ok |-> FALSE, exc |-> Http(500, r.ret.exc.msg)],
             verifier |-> TRUE, handed |-> token, gets |-> r.gets,
             cache |-> r.cache]
    IN
    IF ~authorization.present
       \/ (authorization.words = <<>> /\ authorization.blank = FALSE)
    THEN Refused(<<"Missing authorization header">>)
    ELSE IF Len(authorization.words) # 2
            \/ authorization.words[1] # Word("Bearer")
    THEN Refused(<<"Invalid authorization header format. Expected: Bearer <token>">>)
    ELSE Answer(authorization.words[2],
                Execute(TokenOf(authorization.words[2]), cache, f, served,
                        clock))

\* get_current_user of app/auth/dependencies.py with a fresh service (cache):
\* ret is the user or the HTTPException, verified tells whether the verifier
\* was invoked, gets the fetches it issued
Auth0GetCurrentUser(authorization, cache, f, served, clock) ==
    LET Refused(detail) ==
            [ret |-> [ok |-> FALSE, exc |-> Http(401, detail)],
             verifier |-> FALSE, handed |-> None, gets |-> 0, cache |-> cache]
        Answer(token, r) ==
            [ret |-> IF r.ret.ok THEN r.ret
                     ELSE IF IsInstance(r.ret.exc, "AuthenticationException")
                     THEN [ok |-> FALSE, exc |-> Http(401, r.ret.exc.msg)]
                     ELSE [ok |-> FALSE, exc |-> Http(500, r.ret.exc.msg)],
             verifier |-> TRUE, handed |-> token, gets |-> r.gets,
             cache |-> r.cache]
    IN
    IF ~authorization.present
       \/ (authorization.words = <<>> /\ authorization.blank = FALSE)
    THEN Refused(<<"Missing authorization header">>)
    ELSE IF Len(authorization.words) # 2
            \/ Lower(authorization.words[1]) # "bearer"
    THEN Refused(<<"Invalid authorization header format. Expected: Bearer <token>">>)
    ELSE Answer(authorization.words[2],
                Execute(TokenOf(authorization.words[2]), cache, f, served,
                        clock))

\* mutant: the InsufficientPermissionsException is swallowed
RequirePermissionsCall_NoRaise(permissions, current_user) == Ok(current_user)

\* RequirePermissions(permissions).__call__(current_user)
RequirePermissionsCall(permissions, current_user) ==
    LET Checked(r) ==
            IF r.ok THEN Ok(current_user)
            ELSE [ok |-> FALSE, exc |-> Http(403, r.exc.msg)]
    IN Checked(CheckPermissionsExecute(permissions, current_user))

----------------------------------------------------------------------------
(* HTTP layer of the provider-agnostic revision:                           *)
(* app/infrastructure/api/dependencies.py                                  *)

NoCredentials == [present |-> FALSE]
Credentials(token) == [present |-> TRUE, credentials |-> token]

\* get_current_user: 401 without credentials or when authenticate fails
OAuth2GetCurrentUser(credentials, audience, f1, f2, served, clock1, clock2) ==
    LET Answer(result) ==
            [ret |-> IF result.ok THEN result
                     ELSE [ok |-> FALSE,
                           exc |-> Http(401, <<"Invalid authentication credentials">>)],
             verifier |-> TRUE]
    IN
    IF ~credentials.present
    THEN [ret |-> [ok |-> FALSE, exc |-> Http(401, <<"Not authenticated">>)],
          verifier |-> FALSE]
    ELSE Answer(Authenticate(credentials.credentials, audience, f1, f2,
                             served, clock1, clock2))

\* the dependency require_permissions(required_permissions) returns
RequirePermissionsDep(required_permissions, user) ==
    IF ~check_permissions(user, required_permissions)
    THEN [ok |-> FALSE, exc |-> Http(403, <<"Insufficient permissions">>)]
    ELSE Ok("None")

\* the dependency require_roles(required_roles) returns
RequireRolesDep(required_roles, user) ==
    IF ~check_roles(user, required_roles)
    THEN [ok |-> FALSE, exc |-> Http(403, <<"Insufficient roles">>)]
    ELSE Ok("None")

----------------------------------------------------------------------------
(* The user domain: app/domain, app/application/use_cases/user             *)

\* None as the value of full_name and of an Email argument
NoName == "<None>"
NoEmail == [value |-> "<None>"]

\* pydantic's BaseModel.__init__(self, /, **data): fields are keyword
\* arguments, a positional argument is a TypeError
BaseModelInit(positional, data) ==
    IF positional # <<>>
    THEN Raise("TypeError",
               <<"BaseModel.__init__() takes 1 positional argument but 2 were given">>)
    ELSE Ok(data)

\* str.isalnum() on the characters used here
IsAlnum(c) == c \in {"a", "b", "d", "e", "h", "j", "n", "o", "1"}

\* Username.validate_username
ValidateUsername(v) ==
    IF v = <<>>
    THEN Raise("ValidationException", <<"Username cannot be empty">>)
    ELSE IF Len(v) < 3
    THEN Raise("ValidationException",
               <<"Username must be at least 3 characters">>)
    ELSE IF Len(v) > 50
    THEN Raise("ValidationException",
               <<"Username must be at most 50 characters">>)
    ELSE IF ~ \A i \in 1..Len(v) : IsAlnum(v[i]) \/ v[i] = "_"
    THEN Raise("ValidationException",
               <<"Username can only contain letters, numbers, and underscores">>)
    ELSE Ok(v)

\* Username(...): a frozen model with the one field value
Username(positional, data) ==
    LET Validated(v) == IF ~v.ok THEN v ELSE Ok([value |-> v.val])
        WithData(init) ==
            IF ~init.ok THEN init
            ELSE IF "value" \notin DOMAIN init.val
            THEN Raise("ValidationError", <<"value: Field required">>)
            ELSE Validated(ValidateUsername(init.val.value))
    IN WithData(BaseModelInit(positional, data))

\* Email(...): the value object of app/domain/value_objects/email.py, a model
\* with the one field value holding an address
Email(positional, data) ==
    LET WithData(init) ==
            IF ~init.ok THEN init
            ELSE IF "value" \notin DOMAIN init.val
            THEN Raise("ValidationError", <<"value: Field required">>)
            ELSE IF ~EmailValid(init.val.value)
            THEN Raise("ValidationException", <<"Invalid email format">>)
            ELSE Ok([value |-> init.val.value])
    IN WithData(BaseModelInit(positional, data))

\* User.create: id from uuid4, both timestamps from datetime.now
UserCreate(username, email, full_name, id, clock) ==
    [id |-> id, username |-> username, email |-> email,
     full_name |-> full_name, is_active |-> TRUE,
     created_at |-> clock, updated_at |-> clock]

\* User.deactivate and User.activate
UserDeactivate(user, clock) ==
    [user EXCEPT !.is_active = FALSE, !.updated_at = clock]

UserActivate(user, clock) ==
    [user EXCEPT !.is_active = TRUE, !.updated_at = clock]

\* mutant: both arguments are assigned, None or not
UserUpdateProfile_Overwrite(user, full_name, email, clock) ==
    [user EXCEPT !.full_name = full_name, !.email = email,
                 !.updated_at = clock]

\* User.update_profile(full_name=None, email=None)
UserUpdateProfile(user, full_name, email, clock) ==
    [user EXCEPT
       !.full_name = IF full_name # NoName THEN full_name ELSE @,
       !.email = IF email # NoEmail THEN email ELSE @,
       !.updated_at = clock]

\* DuplicateEntityException(entity_type, field, value)
DuplicateEntityException(entity_type, field, value) ==
    [type |-> "DuplicateEntityException",
     msg |-> <<entity_type, " with ", field, "=", value, " already exists">>,
     entity_type |-> entity_type, field |-> field, value |-> value]

\* Option of the returns library
Nothing == [nothing |-> TRUE]
Some(v) == [some |-> v]

\* the repository: find_by_username, find_by_email and save
FindByUsername(repo, username) ==
    IF \E u \in repo : u.username.value = username
    THEN Some(CHOOSE u \in repo : u.username.value = username)
    ELSE Nothing

FindByEmail(repo, email) ==
    IF \E u \in repo : u.email.value = email
    THEN Some(CHOOSE u \in repo : u.email.value = email)
    ELSE Nothing

\* the names bound in the module create_user.py (its imports and its class)
CreateUserGlobals ==
    {"CreateUserDTO", "UserDTO", "UserRepository", "User",
     "DuplicateEntityException", "Email", "Username", "Either", "Failure",
     "Success", "CreateUserUseCase"}

\* the value of a global name inside execute
CreateUserName(name, value) ==
    IF name \in CreateUserGlobals THEN Ok(value)
    ELSE Raise("NameError", <<"name '", name, "' is not defined">>)

\* CreateUserUseCase._to_dto
ToDto(user) ==
    [id |-> user.id, username |-> user.username.value,
     email |-> user.email.value, full_name |-> user.full_name,
     is_active |-> user.is_active, created_at |-> user.created_at,
     updated_at |-> user.updated_at]

\* CreateUserUseCase.execute: every exception of the try block becomes
\* Failure(e); saves counts the calls of repository.save
CreateUserExecute(dto, repo, id, clock) ==
    LET Out(ret, r, saves) == [ret |-> ret, repo |-> r, saves |-> saves]
        Save(user) == Out(Ok(ToDto(user)), repo \cup {user}, 1)
        ByEmail(username, email, nothing) ==
            IF ~nothing.ok THEN Out(nothing, repo, 0)
            ELSE IF FindByEmail(repo, dto.email) # nothing.val
            THEN Out([ok |-> FALSE,
                      exc |-> DuplicateEntityException("User", "email",
                                                       dto.email)],
                     repo, 0)
            ELSE Save(UserCreate(username, email, dto.full_name, id, clock))
        ByUsername(username, email, nothing) ==
            IF ~nothing.ok THEN Out(nothing, repo, 0)
            ELSE IF FindByUsername(repo, dto.username) # nothing.val
            THEN Out([ok |-> FALSE,
                      exc |-> DuplicateEntityException("User", "username",
                                                       dto.username)],
                     repo, 0)
            ELSE ByEmail(username, email, CreateUserName("Nothing", Nothing))
        WithEmail(username, email) ==
            IF ~email.ok THEN Out(email, repo, 0)
            ELSE ByUsername(username, email.val,
                            CreateUserName("Nothing", Nothing))
        WithUsername(username) ==
            IF ~username.ok THEN Out(username, repo, 0)
            ELSE WithEmail(username.val, Email(<<dto.email>>, <<>>))
    IN WithUsername(Username(<<dto.username>>, <<>>))

----------------------------------------------------------------------------
(* app/core/utils.py; a string is the sequence of its characters *)

\* str.split(sep) for a separator of one character
RECURSIVE SplitFrom(_, _, _)
SplitFrom(text, sep, part) ==
    IF text = <<>> THEN <<part>>
    ELSE IF Head(text) = sep
    THEN <<part>> \o SplitFrom(Tail(text), sep, <<>>)
    ELSE SplitFrom(Tail(text), sep, Append(part, Head(text)))

Split(text, sep) == SplitFrom(text, sep, <<>>)

\* "*" * n: the empty string when n is not positive
Stars(n) == [i \in 1..n |-> "*"]

\* EmailStr: one '@' between a local part and a domain with a dot
EmailStrValid(text) ==
    LET Parts(parts) ==
            /\ Len(parts) = 2
            /\ parts[1] # <<>>
            /\ "." \in Range(parts[2])
            /\ Head(parts[2]) # "." /\ parts[2][Len(parts[2])] # "."
    IN Parts(Split(text, "@"))

\* hide_email, behind validate_arguments
HideEmail(email) ==
    LET Masked(parts) ==
            <<parts[1][1]>> \o Stars(Len(parts[1]) - 2)
                \o <<parts[1][Len(parts[1])]>> \o <<"@">> \o parts[2]
    IN IF ~EmailStrValid(email)
       THEN Raise("ValidationError",
                  <<"email: value is not a valid email address">>)
       ELSE Ok(Masked(Split(email, "@")))

----------------------------------------------------------------------------
(* Password login: app/repository/user.py, app/auth/router.py; the        *)
(* functions of app.core.security as tests/core/test_security.py uses them *)

\* get_password_hash: a text that is not the password
GetPasswordHash(password) == <<"hashed", password>>

\* verify_password: True for the password the hash was made of
VerifyPassword(plain_password, hashed_password) ==
    GetPasswordHash(plain_password) = hashed_password

\* create_access_token(user): a str
CreateAccessToken(subject) == <<"access token", subject.email>>

\* select(User).where(User.email == email) ... .first()
RECURSIVE SelectFirst(_, _)
SelectFirst(db, email) ==
    IF db = <<>> THEN None
    ELSE IF Head(db).email = email THEN Head(db)
    ELSE SelectFirst(Tail(db), email)

\* get_by_email: the log line calls hide_email(email) before the query
GetByEmail(db, email) ==
    LET Logged(hidden) ==
            IF ~hidden.ok THEN hidden ELSE Ok(SelectFirst(db, email))
    IN Logged(HideEmail(email))

\* authenticate: a missing user and a wrong password are logged, and the
\* method goes on; what is returned depends on is_active alone
RepositoryAuthenticate(db, email, password) ==
    LET WithPassword(user, matches) ==
            IF user.is_active THEN Ok(user) ELSE Ok(None)
        WithUser(found) ==
            IF ~found.ok THEN found
            ELSE IF found.val = None
            THEN Raise("AttributeError",
                       <<"'NoneType' object has no attribute 'hashed_password'">>)
            ELSE WithPassword(found.val,
                              VerifyPassword(password,
                                             found.val.hashed_password))
    IN WithUser(GetByEmail(db, email))

\* POST /token: a token for the user authenticate returned, else 401
GetToken(db, username, password) ==
    LET WithUser(user) ==
            IF ~user.ok THEN user
            ELSE IF user.val # None
            THEN Ok([access_token |-> CreateAccessToken(user.val),
                     token_type |-> "bearer"])
            ELSE [ok |-> FALSE,
                  exc |-> Http(401, <<"Incorrect username or password">>)]
    IN WithUser(RepositoryAuthenticate(db, username, password))

----------------------------------------------------------------------------
(* Inputs of the units of work *)

MaxList == 2

RECURSIVE SeqsUpTo(_, _)
SeqsUpTo(S, n) ==
    IF n = 0 THEN {<<>>}
    ELSE LET shorter == SeqsUpTo(S, n - 1) IN
         shorter \cup {Append(q, x) : q \in shorter, x \in S}

PermissionNames == {"read:data", "write:data", "admin:write"}
RoleNames == {"admin", "user"}
PermissionLists == SeqsUpTo(PermissionNames, MaxList)
RoleLists == SeqsUpTo(RoleNames, MaxList)

\* a route: unguarded, or guarded by a permission or a role requirement
Route(guard, required) == [guard |-> guard, required |-> required]
Auth0Routes ==
    {Route("none", <<>>)} \cup
    {Route("permissions", r) :
        r \in {<<"admin:write">>, <<"read:data">>, <<"write:data">>,
               <<>>, <<"read:data", "write:data">>}}
OAuth2Routes ==
    {Route("none", <<>>)} \cup
    {Route("roles", r) : r \in {<<"admin", "superuser">>, <<>>}} \cup
    {Route("permissions", r) :
        r \in {<<"write:data">>, <<>>, <<"write:data", "read:data">>}}

Auth0ValidToken ==
    Token(TRUE, [kid |-> "k1"], "m1",
          [sub |-> "auth0|u1", permissions |-> <<"read:data">>,
           iss |-> Auth0Issuer, aud |-> <<AUTH0_AUDIENCE>>,
           exp |-> MaxTime + 1])

\* the number of places (header, signer, claims) where two tokens differ
Differences(t, u, claims) ==
    (IF t.header = u.header THEN 0 ELSE 1)
    + (IF t.signer = u.signer THEN 0 ELSE 1)
    + Cardinality({c \in claims :
          \/ (c \in DOMAIN t.payload) # (c \in DOMAIN u.payload)
          \/ c \in DOMAIN t.payload /\ t.payload[c] # u.payload[c]})

\* tokens sent over HTTP: the valid one and its one-place variations
Auth0HttpTokens ==
    {MalformedToken} \cup
    {t \in Auth0Tokens :
        t.wellformed /\ Differences(t, Auth0ValidToken, Auth0Claims) <= 1}

\* Authorization headers: Bearer with a token, and the other shapes
Auth0Headers ==
    {HeaderText(<<Word("Bearer"), Jwt(t)>>) : t \in Auth0HttpTokens} \cup
    {NoHeader, EmptyHeader, BlankHeader,
     HeaderText(<<Word("bearer"), Jwt(Auth0ValidToken)>>),
     HeaderText(<<Word("InvalidFormat"), Word("token123")>>),
     HeaderText(<<Word("Bearer"), Word("token123")>>),
     HeaderText(<<Word("Bearer")>>),
     HeaderText(<<Jwt(Auth0ValidToken)>>),
     HeaderText(<<Word("Bearer"), Jwt(Auth0ValidToken), Word("x")>>)}

\* what HTTPBearer(auto_error=False) hands to get_current_user
OAuth2ValidToken ==
    Token(TRUE, [kid |-> "k1"], "m1",
          [sub |-> "auth0|u1", exp |-> MaxTime + 1, iss |-> OAUTH2_ISSUER,
           aud |-> <<ConfiguredAudience>>, email |-> "user@example.com",
           provider |-> "supabase", roles |-> <<"admin">>,
           permissions |-> <<"write:data">>])

OAuth2HttpTokens ==
    {MalformedToken} \cup
    {t \in OAuth2Tokens :
        t.wellformed /\ Differences(t, OAuth2ValidToken, OAuth2Claims) <= 1}

OAuth2Credentials ==
    {NoCredentials} \cup {Credentials(t) : t \in OAuth2HttpTokens}

\* usernames, as their characters
JohnDoe == <<"j", "o", "h", "n", "_", "d", "o", "e">>
Jane1 == <<"j", "a", "n", "e", "1">>
Dashed == <<"a", "-", "b">>

\* CreateUserDTO: username of 3 to 50 characters, email an EmailStr
CreateUserDtos ==
    [username : {JohnDoe, Jane1, Dashed},
     email : {"user@example.com", "jane@example.com"},
     full_name : {NoName, "John Doe"}]

\* what a repository may hold when the use case runs
StoredUsers ==
    {UserCreate([value |-> JohnDoe], [value |-> "user@example.com"],
                "John Doe", "id-1", 1),
     UserCreate([value |-> Jane1], [value |-> "jane@example.com"], NoName,
                "id-2", 1)}

UserIds == {"id-3"}

\* the longest local part of the addresses given to hide_email
MaxLocal == 3

\* addresses with every local part of up to MaxLocal characters, and two
\* texts that are no address
EmailTexts ==
    {l \o <<"@", "x", ".", "y">> :
        l \in UNION {[1..n -> {"a", "b"}] : n \in 1..MaxLocal}}
    \cup {<<>>, <<"a", "b">>}

\* the addresses and passwords of the login form; the last is no address
LoginEmails ==
    {<<"a", "b", "c", "@", "x", ".", "y">>,
     <<"b", "a", "c", "@", "x", ".", "y">>,
     <<"c", "c", "c", "@", "x", ".", "y">>,
     <<"a", "b">>}
LoginPasswords == {"password", "my_password", "wrong"}

\* a row of the users table
LoginUser(email, password, is_active) ==
    [email |-> email, hashed_password |-> GetPasswordHash(password),
     is_active |-> is_active]

\* the users table: an active and an inactive user, or no user
LoginDbs ==
    {<<>>,
     <<LoginUser(<<"a", "b", "c", "@", "x", ".", "y">>, "password", TRUE),
       LoginUser(<<"b", "a", "c", "@", "x", ".", "y">>, "my_password",
                 FALSE)>>}

\* the callers that share one VerifyTokenService
Threads == {1, 2}

\* the tokens they present: the valid one, one signed by the second key, one
\* without kid and one that cannot be parsed
ThreadTokens ==
    {Auth0ValidToken,
     Token(TRUE, [kid |-> "k2"], "m2", Auth0ValidToken.payload),
     Token(TRUE, <<>>, "m1", Auth0ValidToken.payload),
     MalformedToken}

\* an argument of refresh and revoke
OpaqueTokens == {"refresh-token", "access-token"}

Modes ==
    {"service", "auth0_http", "oauth2", "raising", "oauth2_http", "authz",
     "users", "utils", "threads", "login"}

----------------------------------------------------------------------------
(* State machine *)

Idle == [pc |-> "idle"]

\* service = VerifyTokenService(settings) leaves the cache unset; the
\* provider-agnostic revision reads OAUTH2_AUDIENCE from the settings
Init ==
    /\ mode \in Modes
    /\ now = 1
    /\ remote \in JwksChoices
    /\ oauth2_audience \in (IF mode \in {"oauth2", "raising", "oauth2_http"}
                     THEN AudienceSettings ELSE {NoAudience})
    /\ jwks_cache = None
    /\ gets = 0
    /\ okgets = 0
    /\ kids = {}
    /\ issued = {}
    /\ cur = Idle

\* time passes
Tick ==
    /\ now < MaxTime
    /\ now' = now + 1
    /\ UNCHANGED <<mode, remote, oauth2_audience, jwks_cache, gets, okgets, kids,
                   issued, cur>>

\* the provider publishes another key set
Rotate ==
    /\ mode \notin {"authz", "users", "utils", "threads", "login"}
    /\ \E j \in JwksChoices : j # remote /\ remote' = j
    /\ UNCHANGED <<mode, now, oauth2_audience, jwks_cache, gets, okgets, kids,
                   issued, cur>>

\* the caller has consumed the result of a direct call; it remembers the
\* last user authenticate gave it
Return ==
    /\ cur.pc = "returned"
    /\ cur' = Idle
    /\ issued' = IF cur.op = "authenticate" /\ cur.res.ok
                 THEN {<<cur.res.val.provider_user_id, cur.res.val.user_id>>}
                 ELSE issued
    /\ UNCHANGED <<mode, now, remote, oauth2_audience, jwks_cache, gets, okgets,
                   kids>>

(* Direct use of one VerifyTokenService instance *)

\* a caller hands a token to service.execute
Call ==
    /\ mode = "service"
    /\ cur.pc = "idle"
    /\ \E token \in Auth0Tokens :
          cur' = [pc |-> "called", op |-> "execute", tok |-> token]
    /\ UNCHANGED <<mode, now, remote, oauth2_audience, jwks_cache, gets, okgets,
                   kids, issued>>

\* the kid a token references
KidsOf(token) ==
    IF token.wellformed /\ "kid" \in DOMAIN token.header
    THEN {token.header.kid} ELSE {}

\* service.execute(token) runs; f is the outcome of the fetch it may issue
ServiceExecute ==
    /\ mode = "service"
    /\ cur.pc = "called"
    /\ \E f \in FetchOutcomes :
        \E r \in {Execute(cur.tok, jwks_cache, f, remote, now)} :
        /\ gets + r.gets <= MaxGets
        /\ jwks_cache' = r.cache
        /\ gets' = gets + r.gets
        /\ okgets' = okgets + (IF r.gets = 1 /\ f = "ok" THEN 1 ELSE 0)
        /\ kids' = kids \cup KidsOf(cur.tok)
        /\ cur' = [pc |-> "returned", op |-> "execute", tok |-> cur.tok,
                   res |-> r.ret, at |-> now, before |-> jwks_cache,
                   keys |-> r.cache, fetched |-> r.gets]
    /\ UNCHANGED <<mode, now, remote, oauth2_audience, issued>>

(* Direct use of JWTOAuth2Provider and AuthenticationService *)

\* the two revisions of JWTOAuth2Provider and AuthenticationService
ProviderModes == {"oauth2", "raising"}

\* a caller hands a token to provider.verify_token, provider.get_user_info
\* or service.authenticate
CallProvider ==
    /\ mode \in ProviderModes
    /\ cur.pc = "idle"
    /\ \E op \in {"verify_token", "get_user_info", "authenticate"},
          token \in OAuth2Tokens :
          cur' = [pc |-> "called", op |-> op, tok |-> token]
    /\ UNCHANGED <<mode, now, remote, oauth2_audience, jwks_cache, gets, okgets,
                   kids, issued>>

\* provider.verify_token(token) runs
ProviderVerifyToken ==
    /\ mode \in ProviderModes
    /\ cur.pc = "called" /\ cur.op = "verify_token"
    /\ \E f \in FetchOutcomes :
          cur' = [pc |-> "returned", op |-> cur.op, tok |-> cur.tok,
                  res |-> IF mode = "raising"
                          THEN RaisingVerifyToken(cur.tok, oauth2_audience, f,
                                                  remote, now)
                          ELSE VerifyToken(cur.tok, oauth2_audience, f, remote,
                                           now),
                  at |-> now, at2 |-> now,
                  keys |-> IF f = "ok" THEN remote ELSE None]
    /\ UNCHANGED <<mode, now, remote, oauth2_audience, jwks_cache, gets, okgets,
                   kids, issued>>

\* service.authenticate(token) runs; f1 and f2 are the outcomes of the key
\* fetches of its two verifications and d the time that passes between
\* them (there is no second verification when the first one fails)
\* `first` is what the provider's verify_token gave the service and `calls`
\* the provider methods the service invoked
ServiceAuthenticate ==
    /\ mode \in ProviderModes
    /\ cur.pc = "called" /\ cur.op = "authenticate"
    /\ \E f1, f2 \in FetchOutcomes, d \in {0, 1} :
        /\ now + d <= MaxTime
        /\ VerifyToken(cur.tok, oauth2_audience, f1, remote, now).ok
           \/ (d = 0 /\ f2 = f1)
        /\ \E r \in {IF mode = "raising"
                     THEN RaisingAuthenticate(cur.tok, oauth2_audience, f1, f2,
                                              remote, now, now + d)
                     ELSE Authenticate(cur.tok, oauth2_audience, f1, f2,
                                       remote, now, now + d)},
              v \in {IF mode = "raising"
                     THEN RaisingVerifyToken(cur.tok, oauth2_audience, f1,
                                             remote, now)
                     ELSE VerifyToken(cur.tok, oauth2_audience, f1, remote,
                                      now)} :
            cur' = [pc |-> "returned", op |-> cur.op, tok |-> cur.tok,
                    res |-> r, at |-> now, at2 |-> now + d,
                    keys |-> IF f1 = "ok" THEN remote ELSE None,
                    keys2 |-> IF f2 = "ok" THEN remote ELSE None,
                    first |-> v, calls |-> AuthenticateCalls(v)]
        /\ now' = now + d
    /\ UNCHANGED <<mode, remote, oauth2_audience, jwks_cache, gets, okgets,
                   kids, issued>>

\* provider.get_user_info(token) runs; `verified` is what its call of
\* verify_token gave it
ProviderGetUserInfo ==
    /\ mode \in ProviderModes
    /\ cur.pc = "called" /\ cur.op = "get_user_info"
    /\ \E f \in FetchOutcomes :
          cur' = [pc |-> "returned", op |-> cur.op, tok |-> cur.tok,
                  res |-> IF mode = "raising"
                          THEN RaisingGetUserInfo(cur.tok, oauth2_audience, f,
                                                  remote, now)
                          ELSE GetUserInfo(cur.tok, oauth2_audience, f, remote,
                                           now),
                  verified |-> VerifyToken(cur.tok, oauth2_audience, f,
                                           remote, now),
                  at |-> now, at2 |-> now,
                  keys |-> IF f = "ok" THEN remote ELSE None]
    /\ UNCHANGED <<mode, now, remote, oauth2_audience, jwks_cache, gets, okgets,
                   kids, issued>>

\* a caller asks the provider or the service to refresh or to revoke
CallRefresh ==
    /\ mode \in ProviderModes
    /\ cur.pc = "idle"
    /\ \E op \in {"refresh_token", "revoke_token", "refresh_authentication",
                   "logout"},
          token \in OpaqueTokens :
          cur' = [pc |-> "called", op |-> op, tok |-> token]
    /\ UNCHANGED <<mode, now, remote, oauth2_audience, jwks_cache, gets, okgets,
                   kids, issued>>

\* provider.refresh_token(refresh_token) runs
ProviderRefreshToken ==
    /\ mode \in ProviderModes
    /\ cur.pc = "called" /\ cur.op = "refresh_token"
    /\ cur' = [pc |-> "returned", op |-> cur.op, tok |-> cur.tok,
               res |-> IF mode = "raising" THEN RaisingRefreshToken(cur.tok)
                       ELSE RefreshToken(cur.tok)]
    /\ UNCHANGED <<mode, now, remote, oauth2_audience, jwks_cache, gets, okgets,
                   kids, issued>>

\* provider.revoke_token(token) runs
ProviderRevokeToken ==
    /\ mode \in ProviderModes
    /\ cur.pc = "called" /\ cur.op = "revoke_token"
    /\ cur' = [pc |-> "returned", op |-> cur.op, tok |-> cur.tok,
               res |-> IF mode = "raising" THEN RaisingRevokeToken(cur.tok)
                       ELSE RevokeToken(cur.tok)]
    /\ UNCHANGED <<mode, now, remote, oauth2_audience, jwks_cache, gets, okgets,
                   kids, issued>>

\* service.refresh_authentication(refresh_token) runs
ServiceRefreshAuthentication ==
    /\ mode \in ProviderModes
    /\ cur.pc = "called" /\ cur.op = "refresh_authentication"
    /\ cur' = [pc |-> "returned", op |-> cur.op, tok |-> cur.tok,
               res |-> IF mode = "raising"
                       THEN RaisingRefreshAuthentication(cur.tok)
                       ELSE RefreshAuthentication(cur.tok)]
    /\ UNCHANGED <<mode, now, remote, oauth2_audience, jwks_cache, gets, okgets,
                   kids, issued>>

\* service.logout(access_token) runs
ServiceLogout ==
    /\ mode \in ProviderModes
    /\ cur.pc = "called" /\ cur.op = "logout"
    /\ cur' = [pc |-> "returned", op |-> cur.op, tok |-> cur.tok,
               res |-> IF mode = "raising" THEN RaisingLogout(cur.tok)
                       ELSE Logout(cur.tok)]
    /\ UNCHANGED <<mode, now, remote, oauth2_audience, jwks_cache, gets, okgets,
                   kids, issued>>

(* Authorization checks on their own *)

\* a caller asks whether a user satisfies a requirement
CallAuthz ==
    /\ mode = "authz"
    /\ cur.pc = "idle"
    /\ \/ \E granted, required \in PermissionLists :
            cur' = [pc |-> "called", op |-> "permissions",
                    required |-> required,
                    user |-> [permissions |-> granted, roles |-> <<>>]]
       \/ \E granted, required \in RoleLists :
            cur' = [pc |-> "called", op |-> "roles", required |-> required,
                    user |-> [permissions |-> <<>>, roles |-> granted]]
    /\ UNCHANGED <<mode, now, remote, oauth2_audience, jwks_cache, gets, okgets,
                   kids, issued>>

\* the permission checks of both revisions run on the same arguments
CheckPermissions ==
    /\ mode = "authz"
    /\ cur.pc = "called" /\ cur.op = "permissions"
    /\ cur' = [cur EXCEPT !.pc = "returned"] @@
              [has_all_permissions |->
                   has_all_permissions(cur.user, cur.required),
               validate_permissions |->
                   validate_permissions(cur.user, cur.required),
               check_permissions |->
                   check_permissions(cur.user, cur.required),
               execute |-> CheckPermissionsExecute(cur.required, cur.user)]
    /\ UNCHANGED <<mode, now, remote, oauth2_audience, jwks_cache, gets, okgets,
                   kids, issued>>

\* the role checks run on the same arguments
CheckRoles ==
    /\ mode = "authz"
    /\ cur.pc = "called" /\ cur.op = "roles"
    /\ cur' = [cur EXCEPT !.pc = "returned"] @@
              [has_any_role |-> has_any_role(cur.user, cur.required),
               validate_roles |-> validate_roles(cur.user, cur.required),
               check_roles |-> check_roles(cur.user, cur.required)]
    /\ UNCHANGED <<mode, now, remote, oauth2_audience, jwks_cache, gets, okgets,
                   kids, issued>>

(* HTTP requests *)

\* a request arrives: nothing about the caller is established yet
NewRequest(route, authorization) ==
    [pc |-> "request", route |-> route, authorization |-> authorization,
     trail |-> <<"Unauthenticated">>, svc_cache |-> None, user |-> None,
     response |-> None, verifier |-> FALSE, handed |-> None,
     checked |-> FALSE, fetched |-> 0, at |-> 0]

\* the stages get_current_user went through
TrailOf(verifier, verified, resolved) ==
    <<"Unauthenticated">> \o
    (IF verifier THEN <<"TokenReceived">> ELSE <<>>) \o
    (IF verified THEN <<"TokenVerified">> ELSE <<>>) \o
    (IF resolved THEN <<"UserResolved">> ELSE <<"Denied">>)

\* a request to a route of the Auth0 revision arrives
Auth0Request ==
    /\ mode = "auth0_http"
    /\ cur.pc = "idle"
    /\ \E route \in Auth0Routes, authorization \in Auth0Headers :
          cur' = NewRequest(route, authorization)
    /\ UNCHANGED <<mode, now, remote, oauth2_audience, jwks_cache, gets,
                   okgets, kids, issued>>

\* get_verify_token_service: a new VerifyTokenService for this request
GetVerifyTokenService ==
    /\ mode = "auth0_http"
    /\ cur.pc = "request"
    /\ cur' = [cur EXCEPT !.pc = "deps", !.svc_cache = None]
    /\ UNCHANGED <<mode, now, remote, oauth2_audience, jwks_cache, gets,
                   okgets, kids, issued>>

\* get_current_user of the Auth0 revision
Auth0CurrentUser ==
    /\ mode = "auth0_http"
    /\ cur.pc = "deps"
    /\ \E f \in FetchOutcomes :
       \E r \in {Auth0GetCurrentUser(cur.authorization, cur.svc_cache, f,
                                     remote, now)} :
        /\ gets + r.gets <= MaxGets
        /\ cur' = [cur EXCEPT
                     !.pc = IF r.ret.ok THEN "user" ELSE "denied",
                     !.user = IF r.ret.ok THEN r.ret.val ELSE None,
                     !.response = IF r.ret.ok THEN None ELSE r.ret.exc,
                     !.verifier = r.verifier,
                     !.handed = r.handed,
                     !.trail = TrailOf(r.verifier, r.ret.ok, r.ret.ok),
                     !.svc_cache = r.cache,
                     !.fetched = r.gets,
                     !.at = now]
        /\ gets' = gets + r.gets
        /\ okgets' = okgets + (IF r.gets = 1 /\ f = "ok" THEN 1 ELSE 0)
    /\ UNCHANGED <<mode, now, remote, oauth2_audience, jwks_cache, kids,
                   issued>>

\* the RequirePermissions dependency of a guarded route
Auth0Guard ==
    /\ mode = "auth0_http"
    /\ cur.pc = "user" /\ cur.route.guard = "permissions"
    /\ \E r \in {RequirePermissionsCall(cur.route.required, cur.user)} :
        cur' = [cur EXCEPT
                  !.pc = IF r.ok THEN "authorized" ELSE "denied",
                  !.response = IF r.ok THEN None ELSE r.exc,
                  !.checked = TRUE,
                  !.trail = Append(@, IF r.ok THEN "Authorized" ELSE "Denied")]
    /\ UNCHANGED <<mode, now, remote, oauth2_audience, jwks_cache, gets,
                   okgets, kids, issued>>

\* a request to a route of the provider-agnostic revision arrives
OAuth2Request ==
    /\ mode = "oauth2_http"
    /\ cur.pc = "idle"
    /\ \E route \in OAuth2Routes, credentials \in OAuth2Credentials :
          cur' = NewRequest(route, credentials)
    /\ UNCHANGED <<mode, now, remote, oauth2_audience, jwks_cache, gets,
                   okgets, kids, issued>>

\* get_oauth2_provider and get_authentication_service: a new provider and a
\* new AuthenticationService for this request
GetAuthenticationService ==
    /\ mode = "oauth2_http"
    /\ cur.pc = "request"
    /\ cur' = [cur EXCEPT !.pc = "deps"]
    /\ UNCHANGED <<mode, now, remote, oauth2_audience, jwks_cache, gets,
                   okgets, kids, issued>>

\* get_current_user of the provider-agnostic revision
OAuth2CurrentUser ==
    /\ mode = "oauth2_http"
    /\ cur.pc = "deps"
    /\ \E f1, f2 \in FetchOutcomes, d \in {0, 1} :
       \E verified \in {/\ cur.authorization.present
                          /\ VerifyToken(cur.authorization.credentials,
                                         oauth2_audience, f1, remote, now).ok},
          r \in {OAuth2GetCurrentUser(cur.authorization, oauth2_audience, f1,
                                      f2, remote, now, now + d)} :
        /\ now + d <= MaxTime
        /\ verified \/ (d = 0 /\ f2 = f1)
        /\ cur' = [cur EXCEPT
                     !.pc = IF r.ret.ok THEN "user" ELSE "denied",
                     !.user = IF r.ret.ok THEN r.ret.val ELSE None,
                     !.response = IF r.ret.ok THEN None ELSE r.ret.exc,
                     !.verifier = r.verifier,
                     !.trail = TrailOf(r.verifier, verified, r.ret.ok),
                     !.at = now]
        /\ now' = now + d
    /\ UNCHANGED <<mode, remote, oauth2_audience, jwks_cache, gets, okgets,
                   kids, issued>>

\* the require_permissions / require_roles dependency of a guarded route
OAuth2Guard ==
    /\ mode = "oauth2_http"
    /\ cur.pc = "user" /\ cur.route.guard # "none"
    /\ \E r \in {IF cur.route.guard = "permissions"
                THEN RequirePermissionsDep(cur.route.required, cur.user)
                ELSE RequireRolesDep(cur.route.required, cur.user)} :
        cur' = [cur EXCEPT
                  !.pc = IF r.ok THEN "authorized" ELSE "denied",
                  !.response = IF r.ok THEN None ELSE r.exc,
                  !.checked = TRUE,
                  !.trail = Append(@, IF r.ok THEN "Authorized" ELSE "Denied")]
    /\ UNCHANGED <<mode, now, remote, oauth2_audience, jwks_cache, gets,
                   okgets, kids, issued>>

\* the route handler runs once its dependencies are resolved
Endpoint ==
    /\ \/ cur.pc = "authorized"
       \/ cur.pc = "user" /\ cur.route.guard = "none"
    /\ cur' = [cur EXCEPT !.pc = "responded",
                          !.response = Http(200, <<"OK">>)]
    /\ UNCHANGED <<mode, now, remote, oauth2_audience, jwks_cache, gets,
                   okgets, kids, issued>>

\* the response is sent and the request's objects are dropped
Finish ==
    /\ cur.pc \in {"denied", "responded"}
    /\ cur' = Idle
    /\ UNCHANGED <<mode, now, remote, oauth2_audience, jwks_cache, gets,
                   okgets, kids, issued>>

(* The user use cases *)

\* a caller hands a DTO to CreateUserUseCase(repository).execute
CallCreateUser ==
    /\ mode = "users"
    /\ cur.pc = "idle"
    /\ \E dto \in CreateUserDtos, repo \in SUBSET StoredUsers :
          cur' = [pc |-> "called", op |-> "create_user", dto |-> dto,
                  repo |-> repo]
    /\ UNCHANGED <<mode, now, remote, oauth2_audience, jwks_cache, gets,
                   okgets, kids, issued>>

\* CreateUserUseCase.execute(dto) runs
CreateUser ==
    /\ mode = "users"
    /\ cur.pc = "called" /\ cur.op = "create_user"
    /\ \E id \in UserIds :
       \E r \in {CreateUserExecute(cur.dto, cur.repo, id, now)} :
          cur' = [pc |-> "returned", op |-> cur.op, dto |-> cur.dto,
                  before |-> cur.repo, repo |-> r.repo, res |-> r.ret,
                  saves |-> r.saves]
    /\ UNCHANGED <<mode, now, remote, oauth2_audience, jwks_cache, gets,
                   okgets, kids, issued>>

(* One User entity *)

\* User.create(username, email, full_name); `created` keeps the entity as
\* it was created, `prev` the entity before the last call and `call` the
\* last call, `toggle` the last of activate and deactivate
NewUser ==
    /\ mode = "users"
    /\ cur.pc = "idle"
    /\ \E id \in UserIds, name \in {JohnDoe, Jane1},
          email \in {"user@example.com"}, full_name \in {NoName, "John Doe"} :
        \E u \in {UserCreate([value |-> name], [value |-> email], full_name,
                             id, now)} :
          cur' = [pc |-> "entity", user |-> u, created |-> u, prev |-> u,
                  call |-> <<"create">>, toggle |-> "none"]
    /\ UNCHANGED <<mode, now, remote, oauth2_audience, jwks_cache, gets,
                   okgets, kids, issued>>

\* user.deactivate()
Deactivate ==
    /\ mode = "users"
    /\ cur.pc = "entity"
    /\ cur' = [cur EXCEPT !.user = UserDeactivate(cur.user, now),
                          !.prev = cur.user,
                          !.call = <<"deactivate">>,
                          !.toggle = "deactivate"]
    /\ UNCHANGED <<mode, now, remote, oauth2_audience, jwks_cache, gets,
                   okgets, kids, issued>>

\* user.activate()
Activate ==
    /\ mode = "users"
    /\ cur.pc = "entity"
    /\ cur' = [cur EXCEPT !.user = UserActivate(cur.user, now),
                          !.prev = cur.user,
                          !.call = <<"activate">>,
                          !.toggle = "activate"]
    /\ UNCHANGED <<mode, now, remote, oauth2_audience, jwks_cache, gets,
                   okgets, kids, issued>>

\* user.update_profile(full_name, email)
UpdateProfile ==
    /\ mode = "users"
    /\ cur.pc = "entity"
    /\ \E full_name \in {NoName, "John Doe", "Jane Roe"},
          email \in {NoEmail, [value |-> "user@example.com"],
                     [value |-> "jane@example.com"]} :
          cur' = [cur EXCEPT
                    !.user = UserUpdateProfile(cur.user, full_name, email, now),
                    !.prev = cur.user,
                    !.call = <<"update_profile", full_name, email>>]
    /\ UNCHANGED <<mode, now, remote, oauth2_audience, jwks_cache, gets,
                   okgets, kids, issued>>

\* the entity is let go
Drop ==
    /\ mode = "users"
    /\ cur.pc = "entity"
    /\ cur' = Idle
    /\ UNCHANGED <<mode, now, remote, oauth2_audience, jwks_cache, gets,
                   okgets, kids, issued>>

(* Utilities *)

\* a caller hands a text to hide_email
CallHideEmail ==
    /\ mode = "utils"
    /\ cur.pc = "idle"
    /\ \E email \in EmailTexts :
          cur' = [pc |-> "called", op |-> "hide_email", email |-> email]
    /\ UNCHANGED <<mode, now, remote, oauth2_audience, jwks_cache, gets,
                   okgets, kids, issued>>

\* hide_email(email) runs
HideEmailCall ==
    /\ mode = "utils"
    /\ cur.pc = "called" /\ cur.op = "hide_email"
    /\ cur' = [pc |-> "returned", op |-> cur.op, email |-> cur.email,
               res |-> HideEmail(cur.email)]
    /\ UNCHANGED <<mode, now, remote, oauth2_audience, jwks_cache, gets,
                   okgets, kids, issued>>

(* Password login *)

\* a login form is posted to /token
CallGetToken ==
    /\ mode = "login"
    /\ cur.pc = "idle"
    /\ \E db \in LoginDbs, username \in LoginEmails,
          password \in LoginPasswords :
          cur' = [pc |-> "called", op |-> "get_token", db |-> db,
                  username |-> username, password |-> password]
    /\ UNCHANGED <<mode, now, remote, oauth2_audience, jwks_cache, gets,
                   okgets, kids, issued>>

\* get_token runs; user is what repository.user.authenticate gave it
GetTokenCall ==
    /\ mode = "login"
    /\ cur.pc = "called" /\ cur.op = "get_token"
    /\ cur' = [pc |-> "returned", op |-> cur.op, db |-> cur.db,
               username |-> cur.username, password |-> cur.password,
               user |-> RepositoryAuthenticate(cur.db, cur.username,
                                               cur.password),
               res |-> GetToken(cur.db, cur.username, cur.password)]
    /\ UNCHANGED <<mode, now, remote, oauth2_audience, jwks_cache, gets,
                   okgets, kids, issued>>

(* Callers that share one VerifyTokenService and run concurrently; the    *)
(* steps are the places of execute where another thread can run: before   *)
(* the cache is read, while httpx.get waits, before the cache is assigned *)

\* the threads start, none of them inside a call
SpawnThreads ==
    /\ mode = "threads"
    /\ cur.pc = "idle"
    /\ cur' = [pc |-> "threads", th |-> [i \in Threads |-> [pc |-> "idle"]]]
    /\ UNCHANGED <<mode, now, remote, oauth2_audience, jwks_cache, gets,
                   okgets, kids, issued>>

\* thread i calls service.execute(token)
ThreadCall(i) ==
    /\ mode = "threads"
    /\ cur.pc = "threads"
    /\ cur.th[i].pc = "idle"
    /\ \E token \in ThreadTokens :
          cur' = [cur EXCEPT !.th[i] = [pc |-> "called", tok |-> token]]
    /\ UNCHANGED <<mode, now, remote, oauth2_audience, jwks_cache, gets,
                   okgets, kids, issued>>

\* _get_signing_key up to 'if self._jwks_cache is not None': a token
\* without kid ends the call, a populated cache is taken as the key set
ThreadReadCache(i) ==
    /\ mode = "threads"
    /\ cur.pc = "threads"
    /\ cur.th[i].pc = "called"
    /\ \E header \in {GetUnverifiedHeader(cur.th[i].tok)} :
        IF ~header.ok \/ "kid" \notin DOMAIN header.val
        THEN cur' = [cur EXCEPT !.th[i] =
                        [pc |-> "done", tok |-> cur.th[i].tok,
                         res |-> Execute(cur.th[i].tok, jwks_cache, "ok",
                                         remote, now).ret,
                         at |-> now, seen |-> None, f |-> "ok"]]
        ELSE cur' = [cur EXCEPT !.th[i] =
                        [pc |-> IF jwks_cache # None THEN "decode"
                                ELSE "fetching",
                         tok |-> cur.th[i].tok, seen |-> jwks_cache]]
    /\ UNCHANGED <<mode, now, remote, oauth2_audience, jwks_cache, gets,
                   okgets, kids, issued>>

\* httpx.get returns or raises in thread i; a failure ends the call
ThreadFetch(i) ==
    /\ mode = "threads"
    /\ cur.pc = "threads"
    /\ cur.th[i].pc = "fetching"
    /\ \E f \in FetchOutcomes :
        IF f = "ok"
        THEN cur' = [cur EXCEPT !.th[i] =
                        [pc |-> "fetched", tok |-> cur.th[i].tok,
                         response |-> remote]]
        ELSE cur' = [cur EXCEPT !.th[i] =
                        [pc |-> "done", tok |-> cur.th[i].tok,
                         res |-> Execute(cur.th[i].tok, None, f, remote,
                                         now).ret,
                         at |-> now, seen |-> None, f |-> f]]
    /\ UNCHANGED <<mode, now, remote, oauth2_audience, jwks_cache, gets,
                   okgets, kids, issued>>

\* self._jwks_cache = response.json() in thread i, one assignment
ThreadStore(i) ==
    /\ mode = "threads"
    /\ cur.pc = "threads"
    /\ cur.th[i].pc = "fetched"
    /\ \E r \in {GetJwks(None, "ok", cur.th[i].response)} :
        /\ jwks_cache' = r.cache
        /\ cur' = [cur EXCEPT !.th[i] =
                      [pc |-> "decode", tok |-> cur.th[i].tok,
                       seen |-> r.ret.val]]
    /\ UNCHANGED <<mode, now, remote, oauth2_audience, gets, okgets, kids,
                   issued>>

\* the rest of execute in thread i, on the key set it holds
ThreadDecode(i) ==
    /\ mode = "threads"
    /\ cur.pc = "threads"
    /\ cur.th[i].pc = "decode"
    /\ cur' = [cur EXCEPT !.th[i] =
                  [pc |-> "done", tok |-> cur.th[i].tok,
                   res |-> Execute(cur.th[i].tok, cur.th[i].seen, "ok",
                                   remote, now).ret,
                   at |-> now, seen |-> cur.th[i].seen, f |-> "ok"]]
    /\ UNCHANGED <<mode, now, remote, oauth2_audience, jwks_cache, gets,
                   okgets, kids, issued>>

\* the caller of thread i has its result
ThreadReturn(i) ==
    /\ mode = "threads"
    /\ cur.pc = "threads"
    /\ cur.th[i].pc = "done"
    /\ cur' = [cur EXCEPT !.th[i] = [pc |-> "idle"]]
    /\ UNCHANGED <<mode, now, remote, oauth2_audience, jwks_cache, gets,
                   okgets, kids, issued>>

\* one step of one thread
ThreadStep ==
    \E i \in Threads :
        \/ ThreadCall(i)
        \/ ThreadReadCache(i)
        \/ ThreadFetch(i)
        \/ ThreadStore(i)
        \/ ThreadDecode(i)
        \/ ThreadReturn(i)

Next ==
    \/ Tick
    \/ Rotate
    \/ Return
    \/ Call
    \/ ServiceExecute
    \/ CallProvider
    \/ ProviderVerifyToken
    \/ ServiceAuthenticate
    \/ ProviderGetUserInfo
    \/ CallRefresh
    \/ ProviderRefreshToken
    \/ ProviderRevokeToken
    \/ ServiceRefreshAuthentication
    \/ ServiceLogout
    \/ CallAuthz
    \/ CheckPermissions
    \/ CheckRoles
    \/ Auth0Request
    \/ GetVerifyTokenService
    \/ Auth0CurrentUser
    \/ Auth0Guard
    \/ OAuth2Request
    \/ GetAuthenticationService
    \/ OAuth2CurrentUser
    \/ OAuth2Guard
    \/ Endpoint
    \/ Finish
    \/ CallCreateUser
    \/ CreateUser
    \/ NewUser
    \/ Deactivate
    \/ Activate
    \/ UpdateProfile
    \/ Drop
    \/ CallHideEmail
    \/ HideEmailCall
    \/ SpawnThreads
    \/ CallGetToken
    \/ GetTokenCall
    \/ ThreadStep

Spec == Init /\ [][Next]_vars

----------------------------------------------------------------------------
(* Vocabulary of the properties *)

\* a verification by VerifyTokenService.execute or provider.verify_token
\* has returned
Verified == cur.pc = "returned" /\ cur.op \in {"execute", "verify_token"}

\* the key set holds, for the token's kid, the key that signed the token
SignatureValid(token, keys) ==
    /\ token.wellformed
    /\ "kid" \in DOMAIN token.header
    /\ keys # None
    /\ \E i \in 1..Len(keys.keys) :
          /\ keys.keys[i].kid = token.header.kid
          /\ keys.keys[i].material = token.signer
          /\ \A j \in 1..(i - 1) : keys.keys[j].kid # token.header.kid

\* the configuration a verification ran under
IssuerOf(op) == IF op = "execute" THEN Auth0Issuer ELSE OAUTH2_ISSUER
AudienceOf(op) == IF op = "execute" THEN AUTH0_AUDIENCE ELSE oauth2_audience

IssuerMatches(token, issuer) ==
    "iss" \in DOMAIN token.payload /\ token.payload.iss = issuer

AudienceMatches(token, configured) ==
    \/ configured = NoAudience
    \/ "aud" \in DOMAIN token.payload /\ configured \in Range(token.payload.aud)

ExpiresAfter(token, clock) ==
    "exp" \in DOMAIN token.payload /\ token.payload.exp > clock

ExpiredBefore(token, clock) ==
    "exp" \in DOMAIN token.payload /\ token.payload.exp < clock

\* signature, issuer, audience and expiry of the verified token are good
GoodToken ==
    /\ SignatureValid(cur.tok, cur.keys)
    /\ IssuerMatches(cur.tok, IssuerOf(cur.op))
    /\ AudienceMatches(cur.tok, AudienceOf(cur.op))
    /\ ExpiresAfter(cur.tok, cur.at)

\* what a successful verification returned
SubjectOf(res) == IF cur.op = "execute" THEN res.val.user_id ELSE res.val.sub

\* the returned identity is the payload's, absent lists being empty
SamePayload ==
    /\ cur.res.ok
    /\ SubjectOf(cur.res) = DictGet(cur.tok.payload, "sub", "")
    /\ cur.res.val.permissions = DictGet(cur.tok.payload, "permissions", <<>>)
    /\ cur.op = "verify_token" =>
          cur.res.val.roles = DictGet(cur.tok.payload, "roles", <<>>)

----------------------------------------------------------------------------
(* C1 *)

\* C1 as stated: every token with a valid signature, matching issuer and
\* audience and an expiry in the future verifies, and the returned subject,
\* roles and permissions are the payload's.
C1_AsStated == (Verified /\ GoodToken) => SamePayload

\* C1 (amended): every token that carries a subject claim and has a valid
\* signature, matching issuer and audience and an expiry in the future
\* verifies; the returned subject, roles and permissions equal the payload's
\* and absent roles/permissions are empty lists.
C1_ValidTokenVerifies ==
    (Verified /\ GoodToken /\ "sub" \in DOMAIN cur.tok.payload) => SamePayload

\* a good token without a permissions claim was verified by the service
C1_Witness ==
    /\ Verified /\ GoodToken /\ cur.op = "execute"
    /\ "sub" \in DOMAIN cur.tok.payload
    /\ "permissions" \notin DOMAIN cur.tok.payload
    /\ cur.res.ok /\ cur.res.val.permissions = <<>>

----------------------------------------------------------------------------
(* C2 *)

\* a verification by one VerifyTokenService has returned
Executed == cur.pc = "returned" /\ cur.op = "execute"

\* the token names a key and the verifier obtained a key set
KeyLookedUp ==
    /\ Executed /\ cur.keys # None
    /\ cur.tok.wellformed /\ "kid" \in DOMAIN cur.tok.header

KidListed == \E i \in 1..Len(cur.keys.keys) :
                 cur.keys.keys[i].kid = cur.tok.header.kid

\* the request's token was handed to the verifier by get_current_user of
\* the Auth0 revision
Auth0Verified ==
    mode = "auth0_http" /\ cur.pc \notin {"idle", "request", "deps"}
    /\ cur.verifier

\* the token of the request's Authorization header
RequestToken == TokenOf(cur.authorization.words[2])

ExpiredError == [ok |-> FALSE, exc |-> ExpiredTokenException]

\* C2 as stated: every token whose expiry is in the past fails with
\* ExpiredTokenException, whatever its signature (the tokens taken here name
\* a key the verifier's key set lists, so that only the signature varies).
C2_AsStated ==
    (KeyLookedUp /\ KidListed /\ ExpiredBefore(cur.tok, cur.at))
    => cur.res = ExpiredError

\* C2 (amended): every token whose expiry is in the past and whose signature
\* verifies under the key the verifier's key set holds for its kid fails
\* with ExpiredTokenException, whatever its issuer, audience and identity
\* claims; over HTTP the answer is 401 'Token has expired'.
C2_ExpiredTokenRejected ==
    /\ (Executed /\ ExpiredBefore(cur.tok, cur.at)
          /\ SignatureValid(cur.tok, cur.keys))
       => cur.res = ExpiredError
    /\ (Auth0Verified /\ ExpiredBefore(RequestToken, cur.at)
          /\ SignatureValid(RequestToken, cur.svc_cache))
       => /\ cur.pc = "denied"
          /\ cur.response = Http(401, <<"Token has expired">>)

\* an expired token of another issuer, signed by the listed key, was
\* rejected as expired
C2_Witness ==
    /\ Executed /\ ExpiredBefore(cur.tok, cur.at)
    /\ SignatureValid(cur.tok, cur.keys)
    /\ ~IssuerMatches(cur.tok, Auth0Issuer)
    /\ cur.res = ExpiredError

----------------------------------------------------------------------------
(* C3 *)

SignerListed == \E i \in 1..Len(cur.keys.keys) :
                    cur.keys.keys[i].material = cur.tok.signer

\* the error 'Signing key not found' as execute raises it
KeyNotFoundError ==
    [ok |-> FALSE,
     exc |-> [type |-> "InvalidTokenException",
              msg |-> <<"Invalid token: ", "Token verification failed: ",
                        "Invalid token: ", "Signing key not found">>]]

\* C3 as stated: a token signed with a key that is not in the fetched key
\* set, or whose kid matches no key in it, fails with the error 'Signing key
\* not found' and never succeeds.
C3_AsStated ==
    (KeyLookedUp /\ (~SignerListed \/ ~KidListed)) => cur.res = KeyNotFoundError

\* C3 (amended): a token whose kid matches no key in the key set fails with
\* InvalidTokenException 'Signing key not found'; a token whose kid matches
\* a key that did not sign it never succeeds either, and fails with
\* InvalidTokenException 'Signature verification failed.'
C3_UnknownKeyRejected ==
    /\ (KeyLookedUp /\ ~KidListed) => cur.res = KeyNotFoundError
    /\ (KeyLookedUp /\ KidListed /\ ~SignatureValid(cur.tok, cur.keys))
       => cur.res = [ok |-> FALSE,
                     exc |-> InvalidTokenException(
                                 <<"Signature verification failed.">>)]

\* a token naming a key the fetched set does not list was rejected
C3_Witness ==
    /\ KeyLookedUp /\ ~KidListed /\ cur.fetched = 1
    /\ cur.res = KeyNotFoundError

----------------------------------------------------------------------------
(* C4 *)

\* C4 as stated: verifications of tokens sharing one kid on one instance
\* fetch the JWKS endpoint at most once.
C4_AsStated == (mode = "service" /\ Cardinality(kids) <= 1) => gets <= 1

\* C4 (amended): on one instance the JWKS endpoint is fetched successfully
\* at most once: the first successful fetch populates the cache and every
\* later verification is served from it without a fetch (a fetch that
\* failed leaves the cache unset and is repeated).
C4_FetchedOnce ==
    mode = "service" =>
        /\ okgets <= 1
        /\ (jwks_cache # None) <=> (okgets = 1)
        /\ Executed =>
              /\ cur.before # None => (cur.fetched = 0 /\ cur.keys = cur.before)
              /\ cur.fetched <= 1

\* a token verified from the cache, after a fetch that failed and one that
\* succeeded
C4_Witness ==
    /\ Executed /\ cur.before # None /\ cur.res.ok
    /\ gets = 2 /\ okgets = 1 /\ Cardinality(kids) = 1

----------------------------------------------------------------------------
(* C5 *)

\* the successful fetches made before the current request's verifier ran
EarlierFetches ==
    okgets - (IF cur.fetched = 1 /\ cur.svc_cache # None THEN 1 ELSE 0)

\* C5: the key set is cached process-wide: once a request has fetched it,
\* the verifier of a later request is served from the cache.
C5_ProcessWideCache ==
    (Auth0Verified /\ EarlierFetches >= 1) => cur.fetched = 0

----------------------------------------------------------------------------
(* C6 *)

PermissionsChecked == cur.pc = "returned" /\ cur.op = "permissions"

RequiredHeld == Range(cur.required) \subseteq Range(cur.user.permissions)

\* C6: has_all_permissions (and the checks built on the same rule) hold
\* exactly when every required permission is among the user's; an empty
\* requirement always passes.
C6_AllPermissions ==
    PermissionsChecked =>
        /\ cur.has_all_permissions = RequiredHeld
        /\ cur.validate_permissions = RequiredHeld
        /\ cur.check_permissions = RequiredHeld
        /\ cur.execute.ok = RequiredHeld
        /\ cur.required = <<>> => cur.has_all_permissions

\* a requirement of two permissions met by a user holding both, in another
\* order
C6_Witness ==
    /\ PermissionsChecked /\ Len(cur.required) = 2
    /\ cur.required[1] # cur.required[2]
    /\ cur.user.permissions # cur.required
    /\ RequiredHeld /\ cur.has_all_permissions

----------------------------------------------------------------------------
(* C7 *)

RolesChecked == cur.pc = "returned" /\ cur.op = "roles"

\* C7: an empty role requirement always passes: the role check is true for
\* every user and require_roles([]) never answers 403.
C7_EmptyRolesPass ==
    /\ (RolesChecked /\ cur.required = <<>>)
       => (cur.validate_roles /\ cur.check_roles)
    /\ (mode = "oauth2_http" /\ cur.pc \in {"authorized", "denied", "responded"}
          /\ cur.route = Route("roles", <<>>) /\ cur.checked)
       => cur.pc # "denied"

----------------------------------------------------------------------------
(* C8 *)

RoleShared == Range(cur.required) \cap Range(cur.user.roles) # {}

\* C8: the any-role check holds exactly when the user has at least one of
\* the required roles.
C8_AnyRole ==
    RolesChecked =>
        /\ cur.has_any_role = RoleShared
        /\ cur.validate_roles = RoleShared
        /\ cur.check_roles = RoleShared

\* a user holding the second of two required roles passed
C8_Witness ==
    /\ RolesChecked /\ Len(cur.required) = 2
    /\ cur.required[1] \notin Range(cur.user.roles)
    /\ cur.required[2] \in Range(cur.user.roles)
    /\ cur.has_any_role /\ cur.validate_roles

----------------------------------------------------------------------------
(* C9 *)

\* a request to a permission-protected route is in progress or answered
Protected ==
    /\ mode \in {"auth0_http", "oauth2_http"}
    /\ cur.pc # "idle"
    /\ cur.route.guard = "permissions"

Chain == <<"Unauthenticated", "TokenReceived", "TokenVerified",
           "UserResolved", "Authorized">>

\* the stages passed are a prefix of the chain, closed by Denied when the
\* request was refused
OnChain(trail) ==
    \E n \in 1..Len(Chain) :
        \/ trail = SubSeq(Chain, 1, n)
        \/ n < Len(Chain) /\ trail = Append(SubSeq(Chain, 1, n), "Denied")

HandlerRan == cur.pc = "responded"

\* C9: every request to a permission-protected route passes Unauthenticated,
\* TokenReceived, TokenVerified, UserResolved and ends Authorized or Denied;
\* the handler runs (200) only when the token verified and every required
\* permission is held, a failed verification is answered 401 without a
\* permission check, and a verified request lacking a permission 403.
C9_RequestFlow ==
    Protected =>
        /\ OnChain(cur.trail)
        /\ HandlerRan =>
              /\ cur.response.status = 200
              /\ cur.trail = Chain
              /\ cur.user # None /\ cur.checked
              /\ Range(cur.route.required) \subseteq Range(cur.user.permissions)
        /\ (cur.pc \in {"user", "authorized", "denied", "responded"}
              /\ "TokenVerified" \notin Range(cur.trail))
           => /\ cur.pc = "denied" /\ cur.response.status = 401
              /\ ~cur.checked /\ cur.user = None
        /\ (cur.pc = "denied" /\ cur.response.status = 401) => ~cur.checked
        /\ (cur.pc = "denied" /\ cur.user # None)
           => /\ cur.response.status = 403 /\ cur.checked
              /\ ~(Range(cur.route.required)
                     \subseteq Range(cur.user.permissions))
              /\ cur.trail = Append(SubSeq(Chain, 1, 4), "Denied")
        /\ (cur.pc = "authorized")
           => Range(cur.route.required) \subseteq Range(cur.user.permissions)

\* the handler of a route requiring a permission ran for a verified user
C9_Witness ==
    /\ Protected /\ HandlerRan /\ cur.route.required # <<>>
    /\ cur.response.status = 200 /\ cur.trail = Chain

----------------------------------------------------------------------------
(* C10 *)

Authenticated ==
    cur.pc = "returned" /\ cur.op = "authenticate" /\ cur.res.ok

TokenSubject == DictGet(cur.tok.payload, "sub", "")

\* C10: authenticate gives the same subject the same user_id on every call:
\* the subject itself when it parses as a UUID, else uuid5(NAMESPACE_DNS,
\* subject); provider_user_id is the subject.
C10_StableUserId ==
    Authenticated =>
        /\ cur.res.val.provider_user_id = TokenSubject
        /\ \A pair \in issued :
              pair[1] = TokenSubject => pair[2] = cur.res.val.user_id
        /\ cur.res.val.user_id =
              IF TokenSubject \in {UuidLower, UuidUpper}
              THEN UuidParse(UuidLower).val
              ELSE Uuid5Dns(TokenSubject)

\* the same non-UUID subject was authenticated twice
C10_Witness ==
    /\ Authenticated
    /\ TokenSubject \notin {UuidLower, UuidUpper, ""}
    /\ \E pair \in issued : pair[1] = TokenSubject
    /\ cur.at2 > 1

----------------------------------------------------------------------------
(* Failure of the verifier inside authenticate *)

AuthenticateReturned == cur.pc = "returned" /\ cur.op = "authenticate"

\* C11: when the provider's verify_token fails, authenticate ends in failure
\* with exactly the error verify_token gave (the same exception, not wrapped
\* into another one) and get_user_info is not invoked; this holds for the
\* service that returns Either and for the service that raises.
C11_VerifierErrorUnchanged ==
    (AuthenticateReturned /\ ~cur.first.ok)
        => /\ cur.res = cur.first
           /\ ~cur.res.ok
           /\ "get_user_info" \notin Range(cur.calls)

\* authenticate of the raising service was given an expired token, and
\* authenticate of the other service a token that cannot be decoded
C11_Witness ==
    /\ AuthenticateReturned
    /\ ~cur.first.ok
    /\ \/ mode = "raising" /\ cur.first.exc.type = "TokenExpiredException"
       \/ mode = "oauth2" /\ cur.first.exc.type = "DecodeError"

----------------------------------------------------------------------------
(* refresh and revoke *)

Refreshed ==
    /\ cur.pc = "returned"
    /\ cur.op \in {"refresh_token", "revoke_token", "refresh_authentication",
                   "logout"}

\* the exception classes that say a provider does not implement a method
NotImplementedKinds == {"NotImplementedError", "NotImplementedProviderException"}

\* C12: refreshing and revoking on the generic JWT provider, directly and
\* through refresh_authentication and logout of the service, never succeed
\* and end with the not-implemented-by-provider kind of error surfaced to
\* the caller.
C12_NotImplementedSurfaced ==
    Refreshed => /\ ~cur.res.ok
                 /\ cur.res.exc.type \in NotImplementedKinds

----------------------------------------------------------------------------
(* From verified claims to the user *)

\* C13: mapping verified claims to an AuthenticatedUser is total: whenever
\* the token was verified successfully, with or without the optional
\* claims (email, provider, roles, permissions), get_user_info yields a
\* user and never a failure.
C13_MappingTotal ==
    (cur.pc = "returned" /\ cur.op = "get_user_info" /\ cur.verified.ok)
        => cur.res.ok

----------------------------------------------------------------------------
(* A failed fetch of the key set *)

\* execute issued a fetch and the fetch failed: nothing was cached
FetchFailed == Executed /\ cur.fetched = 1 /\ cur.keys = None

\* get_current_user's verifier issued a fetch and the fetch failed
RequestFetchFailed ==
    /\ mode = "auth0_http"
    /\ cur.pc = "denied"
    /\ cur.verifier
    /\ cur.fetched = 1
    /\ cur.svc_cache = None

\* C14: a failed fetch of the key set (a status that is not 2xx, or a network
\* failure) surfaces from the verifier as an error of a kind other than the
\* invalid-token and expired-token kinds, and get_current_user answers it
\* with service-unavailable (503), not with unauthenticated (401).
C14_KeyFetchErrorKind ==
    /\ FetchFailed
          => /\ ~cur.res.ok
             /\ cur.res.exc.type
                    \notin {"InvalidTokenException", "ExpiredTokenException"}
    /\ RequestFetchFailed => cur.response.status = 503

----------------------------------------------------------------------------
(* What a refused client is told *)

\* the verifier ran for this request and the request was refused
AuthenticationRefused == cur.pc = "denied" /\ cur.verifier

\* the answer get_current_user gives, in this state, to a token that
\* cannot be parsed
MalformedAnswer ==
    IF mode = "auth0_http"
    THEN Auth0GetCurrentUser(HeaderText(<<Word("Bearer"), Jwt(MalformedToken)>>),
                             None, "ok", remote, now).ret.exc
    ELSE OAuth2GetCurrentUser(Credentials(MalformedToken), oauth2_audience,
                              "ok", "ok", remote, now, now).ret.exc

\* C15: two failing authentications that differ only in the kind of
\* failure (malformed token, key fetch outage, expired token, ...) get the
\* same answer: every request the verifier refuses is answered exactly as
\* a request with a malformed token is.
C15_SameGenericMessage ==
    (mode \in {"auth0_http", "oauth2_http"} /\ AuthenticationRefused)
        => cur.response = MalformedAnswer

----------------------------------------------------------------------------
(* Tokens whose key identifier cannot be read *)

\* the token cannot be parsed, or its header carries no kid
NoKeyId(token) == ~token.wellformed \/ "kid" \notin DOMAIN token.header

\* C16: a token that cannot be parsed, or whose header has no kid, fails
\* with InvalidTokenException, and the failure is decided before the key
\* set is consulted: execute issues no fetch and leaves the cache as it
\* was, whether execute is called directly or by get_current_user.
C16_FormatBeforeKeys ==
    /\ (Executed /\ NoKeyId(cur.tok))
          => /\ ~cur.res.ok
             /\ cur.res.exc.type = "InvalidTokenException"
             /\ cur.fetched = 0
             /\ cur.keys = cur.before
    /\ (mode = "auth0_http" /\ AuthenticationRefused /\ NoKeyId(RequestToken))
          => /\ cur.response.status = 401
             /\ cur.fetched = 0
             /\ cur.svc_cache = None

\* execute was given a well-formed token without kid while nothing was
\* cached, so that a look at the key set would have been a fetch
C16_Witness ==
    /\ Executed
    /\ cur.tok.wellformed
    /\ "kid" \notin DOMAIN cur.tok.header
    /\ cur.before = None
    /\ cur.fetched = 0

----------------------------------------------------------------------------
(* The type of the failures that reach the caller *)

\* a verification or an authentication was called directly and failed
VerificationFailed ==
    /\ cur.pc = "returned"
    /\ cur.op \in {"execute", "verify_token", "authenticate"}
    /\ ~cur.res.ok

\* the failure value is one of PyJWT's token errors, which verify_token
\* names in its except clauses
ClassifiedByLibrary == "InvalidTokenError" \in PyJwtBases(cur.res.exc.type)

\* C17: an exception verification does not classify (of the network, of a
\* library, of validation) reaches the caller of verify and of
\* authenticate wrapped into the authentication failure type; no such
\* internal exception type is the failure value.
C17_FailuresWrapped ==
    (VerificationFailed /\ ~ClassifiedByLibrary)
        => IsInstance(cur.res.exc, "AuthenticationException")

----------------------------------------------------------------------------
(* CheckPermissionsService.execute *)

\* C18: CheckPermissionsService(required).execute(user) raises
\* InsufficientPermissionsException exactly when a required permission is
\* not among the user's; the exception carries the required list, each of
\* its permissions appearing in the message; otherwise execute returns
\* None; the user's permissions and the required list are left as they
\* were.
C18_ExecuteRaisesIffMissing ==
    [][CheckPermissions =>
         /\ cur'.execute.ok
               = (Range(cur.required) \subseteq Range(cur.user.permissions))
         /\ cur'.execute.ok => cur'.execute.val = "None"
         /\ ~cur'.execute.ok =>
               /\ cur'.execute.exc.type = "InsufficientPermissionsException"
               /\ cur'.execute.exc.required_permissions = cur.required
               /\ Range(cur.required) \subseteq Range(cur'.execute.exc.msg)
         /\ cur'.user = cur.user
         /\ cur'.required = cur.required]_vars

\* execute raised for a user who holds one of two required permissions
C18_Witness ==
    /\ PermissionsChecked
    /\ ~cur.execute.ok
    /\ Len(cur.required) = 2
    /\ cur.required[1] \in Range(cur.user.permissions)
    /\ cur.required[2] \notin Range(cur.user.permissions)
    /\ cur.execute.exc.required_permissions = cur.required

----------------------------------------------------------------------------
(* Issuer and audience of accepted tokens *)

\* C19: verification succeeds only if the token's issuer equals the
\* configured issuer and, when an audience is configured, the token's
\* audience equals or contains it; the audience is left unchecked only
\* when no audience is configured.
C19_IssuerAndAudience ==
    (Verified /\ cur.res.ok)
        => /\ IssuerMatches(cur.tok, IssuerOf(cur.op))
           /\ AudienceMatches(cur.tok, AudienceOf(cur.op))

----------------------------------------------------------------------------
(* The Authorization header *)

\* two whitespace-separated parts, the first being 'bearer' in any case
BearerHeader(authorization) ==
    /\ authorization.present
    /\ Len(authorization.words) = 2
    /\ Lower(authorization.words[1]) = "bearer"

\* get_current_user of the Auth0 revision has answered
GotCurrentUser == mode = "auth0_http" /\ cur.pc \in {"user", "denied"}

\* C20: get_current_user answers 401 without invoking the verifier when
\* the Authorization header is absent or is not exactly two
\* whitespace-separated parts of which the first is 'bearer' (in any
\* case); in every other case it hands exactly the second part to the
\* verifier.
C20_BearerHeader ==
    GotCurrentUser =>
        IF BearerHeader(cur.authorization)
        THEN /\ cur.verifier
             /\ cur.handed = cur.authorization.words[2]
        ELSE /\ ~cur.verifier
             /\ cur.handed = None
             /\ cur.fetched = 0
             /\ cur.response.status = 401

\* a header whose scheme is written 'bearer' was accepted and its token
\* verified
C20_Witness ==
    /\ GotCurrentUser
    /\ cur.authorization.present
    /\ Len(cur.authorization.words) = 2
    /\ cur.authorization.words[1] = Word("bearer")
    /\ cur.verifier
    /\ cur.pc = "user"

----------------------------------------------------------------------------
(* Creating a user *)

UserCreated == cur.pc = "returned" /\ cur.op = "create_user"

\* the DTO passes the validation of Username and of Email
DtoValid ==
    /\ ValidateUsername(cur.dto.username).ok
    /\ EmailValid(cur.dto.email)

UsernameTaken == \E u \in cur.before : u.username.value = cur.dto.username
EmailTaken == \E u \in cur.before : u.email.value = cur.dto.email

\* C21: CreateUserUseCase.execute, given a DTO with a valid username and
\* email: when the repository holds no user with that username or email it
\* returns Success with a DTO of the same username, email and full_name
\* and calls repository.save exactly once; when the username or the email
\* is taken it returns Failure(DuplicateEntityException) and never calls
\* save.
C21_CreateUser ==
    (UserCreated /\ DtoValid) =>
        IF UsernameTaken \/ EmailTaken
        THEN /\ ~cur.res.ok
             /\ cur.res.exc.type = "DuplicateEntityException"
             /\ cur.saves = 0
        ELSE /\ cur.res.ok
             /\ cur.res.val.username = cur.dto.username
             /\ cur.res.val.email = cur.dto.email
             /\ cur.res.val.full_name = cur.dto.full_name
             /\ cur.saves = 1

----------------------------------------------------------------------------
(* The User entity *)

\* C22: after any sequence of activate, deactivate and update_profile on a
\* User made by User.create, is_active is false exactly when the most
\* recent of activate and deactivate was deactivate (true when there was
\* none), updated_at never decreases, update_profile changes full_name and
\* email only for the arguments that are not None, and id, username and
\* created_at keep their creation values.
C22_UserEntity ==
    cur.pc = "entity" =>
        /\ cur.user.is_active = (cur.toggle # "deactivate")
        /\ cur.user.updated_at >= cur.prev.updated_at
        /\ cur.call[1] = "update_profile" =>
              /\ cur.user.full_name = IF cur.call[2] = NoName
                                      THEN cur.prev.full_name ELSE cur.call[2]
              /\ cur.user.email = IF cur.call[3] = NoEmail
                                  THEN cur.prev.email ELSE cur.call[3]
              /\ cur.user.is_active = cur.prev.is_active
        /\ cur.user.id = cur.created.id
        /\ cur.user.username = cur.created.username
        /\ cur.user.created_at = cur.created.created_at

\* a deactivated user whose name was set got update_profile(email=...) at a
\* later time: the name stays, the email changes, the user stays inactive
C22_Witness ==
    /\ cur.pc = "entity"
    /\ cur.call[1] = "update_profile"
    /\ cur.call[2] = NoName /\ cur.call[3] # NoEmail
    /\ cur.prev.full_name # NoName
    /\ cur.user.email # cur.prev.email
    /\ cur.toggle = "deactivate" /\ ~cur.user.is_active
    /\ cur.user.updated_at > cur.created.created_at

----------------------------------------------------------------------------
(* hide_email *)

EmailHidden ==
    cur.pc = "returned" /\ cur.op = "hide_email" /\ EmailStrValid(cur.email)

\* C23: for every valid address, hide_email returns a string that differs
\* from the address, contains a '*', keeps the part after '@' and has a part
\* before '@' as long as the one of the address.
C23_HideEmail ==
    EmailHidden =>
        /\ cur.res.ok
        /\ cur.res.val # cur.email
        /\ "*" \in Range(cur.res.val)
        /\ Split(cur.res.val, "@")[2] = Split(cur.email, "@")[2]
        /\ Len(Split(cur.res.val, "@")[1]) = Len(Split(cur.email, "@")[1])

----------------------------------------------------------------------------
(* Concurrent callers *)

Threaded == mode = "threads" /\ cur.pc = "threads"

\* what execute gives a token when it runs alone on a new service against
\* the provider's key set, f being the outcome of its fetch
Alone(token, f, clock) == Execute(token, None, f, remote, clock).ret

\* a key set as the provider publishes it, whole
Complete(jwks) == jwks \in JwksChoices

\* C24: concurrent calls do not interfere. Under every interleaving of the
\* steps of two calls on one service, a call that ends has the outcome it
\* has when it runs alone against the same key set (with the same outcome
\* of its own fetch, when it made one), and the cache, and the key set each
\* call holds, is either empty or a complete key set, never a part of one.
C24_NoInterference ==
    Threaded =>
        /\ jwks_cache = None \/ Complete(jwks_cache)
        /\ \A i \in Threads :
              /\ cur.th[i].pc \in {"decode", "done"}
                    => cur.th[i].seen = None \/ Complete(cur.th[i].seen)
              /\ cur.th[i].pc = "done"
                    => cur.th[i].res
                         = Alone(cur.th[i].tok, cur.th[i].f, cur.th[i].at)

\* one thread is about to assign the cache while the other, which found
\* the cache empty too, is still waiting for its own fetch
C24_Witness ==
    /\ Threaded
    /\ jwks_cache = None
    /\ cur.th[1].pc = "fetched"
    /\ cur.th[2].pc = "fetching"

----------------------------------------------------------------------------
(* The populated cache *)

\* the kids of a key set
KidsIn(jwks) == {jwks.keys[n].kid : n \in DOMAIN jwks.keys}

\* the token names a key the key set does not hold
KidMissing(token, jwks) ==
    /\ KidsOf(token) # {}
    /\ KidsOf(token) \cap KidsIn(jwks) = {}

\* C25: once the cache of a VerifyTokenService is populated, no
\* verification on that instance modifies or clears it or issues a fetch; a
\* verification whose kid is not in the cached set fails, with an
\* InvalidTokenException that ends in 'Signing key not found', and leaves the cache as it was, also when the key set the
\* provider publishes at that moment holds that kid.
C25_PopulatedCacheKept ==
    [][(ServiceExecute /\ jwks_cache # None) =>
          /\ jwks_cache' = jwks_cache
          /\ gets' = gets
          /\ KidMissing(cur.tok, jwks_cache) =>
                /\ ~cur'.res.ok
                /\ cur'.res.exc.type = "InvalidTokenException"
                /\ cur'.res.exc.msg[Len(cur'.res.exc.msg)]
                     = "Signing key not found"]_vars

\* a verification on a populated cache failed for a kid the cache does not
\* hold while the provider publishes a key with that kid
C25_Witness ==
    /\ mode = "service"
    /\ cur.pc = "returned"
    /\ cur.before # None
    /\ cur.keys = cur.before
    /\ cur.fetched = 0
    /\ KidMissing(cur.tok, cur.before)
    /\ ~KidMissing(cur.tok, remote)
    /\ ~cur.res.ok

----------------------------------------------------------------------------
(* Fetches that fail *)

\* C26: a verification issues at most one fetch, and issues one whenever
\* the cache is empty and the token names a key; a fetch that fails is not
\* repeated within the verification and leaves the cache empty, so that the
\* next verification on the instance fetches again; the cache changes only
\* by a fetch that succeeded, to the key set that fetch returned.
C26_FailedFetch ==
    [][ServiceExecute =>
          /\ gets' \in {gets, gets + 1}
          /\ (jwks_cache = None /\ KidsOf(cur.tok) # {}) => gets' = gets + 1
          /\ (gets' = gets + 1 /\ okgets' = okgets) => jwks_cache' = None
          /\ jwks_cache' # jwks_cache =>
                /\ jwks_cache = None
                /\ okgets' = okgets + 1
                /\ jwks_cache' = remote]_vars

\* after a verification whose fetch failed, the next one fetched again and
\* populated the cache
C26_Witness ==
    /\ mode = "service"
    /\ cur.pc = "returned"
    /\ cur.before = None
    /\ cur.fetched = 1
    /\ gets = 2
    /\ okgets = 1
    /\ jwks_cache = remote

----------------------------------------------------------------------------
(* Delegation of the authorization checks *)

\* C27: check_permissions and check_roles of AuthenticationService return
\* exactly what the provider's validate_permissions and validate_roles
\* return for the same user and requirement, and change no state: neither
\* the user, nor the requirement, nor anything the service or the provider
\* holds.
C27_ChecksDelegate ==
    [][(CheckPermissions \/ CheckRoles) =>
          /\ cur.op = "permissions" =>
                cur'.check_permissions
                  = validate_permissions(cur.user, cur.required)
          /\ cur.op = "roles" =>
                cur'.check_roles = validate_roles(cur.user, cur.required)
          /\ cur'.user = cur.user
          /\ cur'.required = cur.required
          /\ UNCHANGED <<mode, now, remote, oauth2_audience, jwks_cache,
                         gets, okgets, kids, issued>>]_vars

\* check_roles answered an empty requirement as the provider does
C27_Witness ==
    /\ mode = "authz"
    /\ cur.pc = "returned"
    /\ cur.op = "roles"
    /\ cur.required = <<>>
    /\ cur.user.roles # <<>>
    /\ ~cur.check_roles
    /\ ~cur.validate_roles

----------------------------------------------------------------------------
(* What leaves execute *)

\* the exceptions execute declares
ExecuteRaises == {"ExpiredTokenException", "InvalidTokenException"}

\* get_current_user of the Auth0 revision called the verifier and the
\* verifier raised
VerifierRaised ==
    /\ mode = "auth0_http"
    /\ cur.pc = "denied"
    /\ cur.verifier
    /\ ~cur.checked

\* C28: every call of VerifyTokenService.execute ends by returning an
\* AuthenticatedUser or by raising ExpiredTokenException or
\* InvalidTokenException, no other exception type leaves it; hence
\* get_current_user answers every failure of the verification with 401.
C28_OnlyDeclaredExceptions ==
    /\ (mode = "service" /\ cur.pc = "returned") =>
          IF cur.res.ok
          THEN DOMAIN cur.res.val = {"user_id", "permissions"}
          ELSE cur.res.exc.type \in ExecuteRaises
    /\ VerifierRaised => cur.response.status = 401

\* a fetch of the key set failed with an error that is not an HTTP error
\* and execute raised InvalidTokenException for it
C28_Witness ==
    /\ mode = "service"
    /\ cur.pc = "returned"
    /\ cur.before = None
    /\ cur.fetched = 1
    /\ cur.keys = None
    /\ cur.res = [ok |-> FALSE,
                  exc |-> InvalidTokenException(
                              <<"Token verification failed: ",
                                "Network error">>)]

----------------------------------------------------------------------------
(* The two verifications of authenticate *)

\* authenticate has answered
AuthenticateAnswered ==
    /\ mode \in ProviderModes
    /\ cur.pc = "returned"
    /\ cur.op = "authenticate"

\* the verification get_user_info makes, were it made at the given time
\* with the key set its fetch returned
SecondVerification(clock) ==
    IF mode = "raising"
    THEN RaisingVerifyToken(cur.tok, oauth2_audience, "ok", cur.keys2, clock)
    ELSE VerifyToken(cur.tok, oauth2_audience, "ok", cur.keys2, clock)

\* C29: authenticate verifies the token twice, directly and inside
\* get_user_info, and returns a user only if both verifications succeed;
\* when the first succeeds and the second does not, as for a token that
\* expires between the two, authenticate fails with what the second gave.
C29_BothVerifications ==
    AuthenticateAnswered =>
        /\ cur.res.ok =>
              /\ cur.first.ok
              /\ cur.calls = <<"verify_token", "get_user_info">>
              /\ cur.keys2 # None
              /\ SecondVerification(cur.at2).ok
        /\ (cur.first.ok /\ cur.keys2 # None
               /\ ~SecondVerification(cur.at2).ok) =>
              cur.res = SecondVerification(cur.at2)

\* the token was valid at the first verification and expired at the second
C29_Witness ==
    /\ AuthenticateAnswered
    /\ cur.first.ok
    /\ cur.at2 > cur.at
    /\ cur.keys2 # None
    /\ SecondVerification(cur.at).ok
    /\ ~SecondVerification(cur.at2).ok
    /\ ~cur.res.ok

----------------------------------------------------------------------------
(* Password login *)

\* the login form has been answered
LoggedIn == mode = "login" /\ cur.pc = "returned"

\* a user with the given email exists, the password matches its stored
\* hash and the user is active
CredentialsAccepted ==
    \E n \in DOMAIN cur.db :
        /\ cur.db[n].email = cur.username
        /\ VerifyPassword(cur.password, cur.db[n].hashed_password)
        /\ cur.db[n].is_active

\* C30: repository.user.authenticate returns a user, and POST /token
\* issues an access token, only if a user with the given email exists, the
\* password matches that user's stored hash and the user is active; in
\* every other case authenticate returns None and the endpoint answers 401
\* 'Incorrect username or password'.
C30_PasswordLogin ==
    LoggedIn =>
        IF CredentialsAccepted
        THEN cur.user.ok /\ cur.user.val # None /\ cur.res.ok
        ELSE /\ cur.user = Ok(None)
             /\ cur.res = [ok |-> FALSE,
                           exc |-> Http(401,
                                        <<"Incorrect username or password">>)]

====
